---- MODULE Spec2Model ----
(***************************************************************************)
(* Sell-through tracker (taux-de-sortie): the Shopify client with its 429  *)
(* retry, tag-filtered product discovery, batched inventory collection,    *)
(* the snapshot table, the two ledgers and the sell-through report.        *)
(* The repository holds several generations of the server; each modelled   *)
(* operation names the generation it is translated from.                   *)
(***************************************************************************)
EXTENDS Integers, Sequences, FiniteSets, TLC

VARIABLES call, disc, coll,
          initial_stock, sales, inventory_changes, now, response, received, upstream, run,
          writes

vars == <<call, disc, coll, initial_stock, sales, inventory_changes, now, response, received,
          upstream, run, writes>>

\* The tables of src/db.js, the clock, the last HTTP response, the requests
\* and events processed so far (history), and the number of requests the
\* handlers have sent upstream; and the snapshot run in progress, step by step.
db == <<initial_stock, sales, inventory_changes, now, response, received, upstream, run, writes>>

None == "none"

(***************************************************************************)
(* Catalog client: shopifyGet                                              *)
(***************************************************************************)

\* The retry guard `retry < 5`.
RetryMax == 5
\* Seconds waited when the 429 carries no retry-after header.
DefaultRetryAfter == 2
\* Milliseconds added to the wait by each generation of shopifyGet.
JitterServer == 200
JitterPaged == 300
\* The generation without a counter waits a fixed time, and throttles successes.
LegacyPause == 2000
LegacyThrottle == 150

\* Bounds of the upstream scripts.
MaxK == 7
MaxRequests == 8
MaxHeader == 3

\* "server": src/server.js 443-469; "paged": src/unnamed/part_000 322-343;
\* "legacy": src/unnamed/part_000 674-697.
Clients == {"server", "paged", "legacy"}

\* The values of the retry-after header a 429 may carry: <<>> when the header
\* is absent, <<n>> for the header "n". The header is a string, so "0" is
\* truthy and is read as 0 seconds.
RetryAfterHeaders == {<<>>} \cup {<<n>> : n \in 0..MaxHeader}

\* `retryAfterHeader ? Number(retryAfterHeader) : 2`
\* A wait that would never go below the default.
RetryAfterSecAtLeastDefault(h) ==
  IF h = <<>> \/ h[1] < DefaultRetryAfter THEN DefaultRetryAfter ELSE h[1]
RetryAfterSec(h) == IF h = <<>> THEN DefaultRetryAfter ELSE h[1]

\* The argument of sleep() before a retry.
SleepMs(client, h) ==
  CASE client = "server" -> RetryAfterSec(h) * 1000 + JitterServer
    [] client = "paged" -> RetryAfterSec(h) * 1000 + JitterPaged
    [] client = "legacy" -> LegacyPause

\* Whether a 429 received with `retry` retries already made is retried.
CanRetryOffByOne(client, retry) == client = "legacy" \/ retry < RetryMax - 1
CanRetry(client, retry) == client = "legacy" \/ retry < RetryMax

\* `status === 429 && retry < 5`: the error is one the call retries after.
IsRetryableAnyError(status, client, retry) == status # 200 /\ CanRetry(client, retry)
IsRetryable(status, client, retry) == status = 429 /\ CanRetry(client, retry)

\* The status the upstream answers to the next request: 429 while the script
\* still holds 429s, then the script's final status.
UpstreamStatus(c) == IF c.forever \/ c.served429 < c.n429 THEN 429 ELSE c.final

\* A call against an upstream that answers n429 times 429 and then `final`
\* (or 429 for ever).
CallStart(client, n429, forever, final) ==
  [client |-> client, n429 |-> n429, forever |-> forever, final |-> final,
   served429 |-> 0,
   pc |-> "request", retry |-> 0, requests |-> 0, delays |-> <<>>,
   throttles |-> 0, outcome |-> "pending", status |-> 0]

CallIdle == [CallStart("server", 0, FALSE, 200) EXCEPT !.pc = "idle"]

\* axios.get answers 2xx: the payload is returned.
ShopifyGetOk ==
  /\ UNCHANGED <<disc, coll, db>>
  /\ call.pc = "request"
  /\ call.requests < MaxRequests
  /\ UpstreamStatus(call) = 200
  /\ call' = [call EXCEPT !.requests = @ + 1, !.status = 200,
                          !.throttles = IF call.client = "legacy" THEN @ + 1 ELSE @,
                          !.outcome = "ok", !.pc = "done"]

\* axios.get throws with status 429 and the call may retry: it sleeps first.
ShopifyGetRateLimited ==
  /\ UNCHANGED <<disc, coll, db>>
  /\ call.pc = "request"
  /\ call.requests < MaxRequests
  /\ IsRetryable(UpstreamStatus(call), call.client, call.retry)
  /\ \E h \in RetryAfterHeaders :
       call' = [call EXCEPT !.requests = @ + 1, !.status = 429,
                            !.served429 = @ + 1,
                            !.delays = Append(@, SleepMs(call.client, h)),
                            !.pc = "sleep"]

\* The sleep is over: shopifyGet(pathUrl, params, retry + 1).
ShopifyGetRetry ==
  /\ UNCHANGED <<disc, coll, db>>
  /\ call.pc = "sleep"
  /\ call' = [call EXCEPT !.retry = IF call.client = "legacy" THEN @ ELSE @ + 1,
                          !.pc = "request"]

\* axios.get throws and the error is rethrown to the caller.
ShopifyGetThrow ==
  /\ UNCHANGED <<disc, coll, db>>
  /\ call.pc = "request"
  /\ call.requests < MaxRequests
  /\ UpstreamStatus(call) # 200
  /\ ~IsRetryable(UpstreamStatus(call), call.client, call.retry)
  /\ call' = [call EXCEPT !.requests = @ + 1, !.status = UpstreamStatus(call),
                          !.served429 = IF UpstreamStatus(call) = 429 THEN @ + 1 ELSE @,
                          !.outcome = "error", !.pc = "done"]

NextRetry == ShopifyGetOk \/ ShopifyGetRateLimited \/ ShopifyGetRetry \/ ShopifyGetThrow

(***************************************************************************)
(* Strings are sequences of one-character strings, so that split, trim and *)
(* toLowerCase act on them as the JavaScript methods do.                   *)
(***************************************************************************)

Min(a, b) == IF a < b THEN a ELSE b

\* String.prototype.toLowerCase on the alphabet of the model.
LowerChar(c) == CASE c = "A" -> "a" [] c = "B" -> "b" [] OTHER -> c
ToLowerCase(s) == [i \in 1..Len(s) |-> LowerChar(s[i])]

\* String.prototype.trim: the blanks at both ends are removed.
Trim(s) ==
  LET inked == {i \in 1..Len(s) : s[i] # " "}
  IN  IF inked = {} THEN <<>>
      ELSE SubSeq(s, CHOOSE i \in inked : \A j \in inked : i <= j,
                     CHOOSE i \in inked : \A j \in inked : j <= i)

\* String.prototype.split(sep): "".split(",") is [""].
RECURSIVE Split(_, _)
Split(s, sep) ==
  LET hits == {i \in 1..Len(s) : s[i] = sep}
  IN  IF hits = {} THEN <<s>>
      ELSE LET i == CHOOSE h \in hits : \A g \in hits : h <= g
           IN  <<SubSeq(s, 1, i - 1)>> \o Split(SubSeq(s, i + 1, Len(s)), sep)

\* Array.prototype.includes
Includes(seq, x) == \E i \in 1..Len(seq) : seq[i] = x

(***************************************************************************)
(* Tag filter: fetchProductsByTag (src/unnamed/part_000 357-390) and the   *)
(* single-page filter of the snapshot handler (src/server.js 488-506).     *)
(***************************************************************************)

\* `limit: 250` of the products request.
PageLimit == 250

\* p.tags.split(",").map((t) => t.trim().toLowerCase())
ProductTagsNoLower(tags) == [i \in 1..Len(Split(tags, ",")) |-> Trim(Split(tags, ",")[i])]
ProductTags(tags) ==
  [i \in 1..Len(Split(tags, ",")) |-> ToLowerCase(Trim(Split(tags, ",")[i]))]

\* `if (!p.tags) continue;` then `tags.includes(tagLower)`
HasTag(tags, tagLower) == tags # <<>> /\ Includes(ProductTags(tags), tagLower)

\* The tag strings products carry, and the season keys a caller sends.
TagStrings ==
  << <<>>,
     <<"a">>,
     <<"A", ",", " ", "b">>,
     <<"b", " ", ",", "a">>,
     <<"B">>,
     <<"a", ",">> >>

SeasonKeys ==
  { <<"a">>, <<" ", "A", " ">>, <<"b">>, <<" ">>,
    <<"a", ",", "b">>, <<"A", ",", " ", "b">>, <<"a", ";", "b">> }

\* Bounds of the catalogs: every size up to MaxSmall with every tag pattern,
\* and the sizes around one and two full pages with the patterns of PagePatterns.
MaxSmall == 3
MaxPattern == 3
PagePatterns == { <<2, 5, 3>>, <<3, 1, 4>>, <<6, 2, 2>> }
PageSizes == {PageLimit - 1, PageLimit, PageLimit + 1, 2 * PageLimit, 2 * PageLimit + 1}

\* The upstream catalog: products 1..n, product i carrying the tag string the
\* pattern gives it. Product ids are positive, as Shopify's are.
TagsOf(d, id) == TagStrings[d.pattern[(id % Len(d.pattern)) + 1]]

\* The upstream's answer to products.json: the products after since_id in id
\* order, at most `limit` of them.
ProductsPage(d, sinceId) ==
  [i \in 1..Min(PageLimit, d.n - sinceId) |-> sinceId + i]

DiscStart(impl, key, n, pattern) ==
  [impl |-> impl, key |-> key, tag |-> Trim(key), n |-> n, pattern |-> pattern,
   sinceId |-> 0, results |-> <<>>, examined |-> <<>>, pages |-> 0, pc |-> "fetch"]

DiscIdle == [DiscStart("paged", <<"a">>, 0, <<1, 1, 1>>) EXCEPT !.pc = "idle"]

\* The products of one page that carry the tag, in page order.
Tagged(d, products) ==
  SelectSeq(products, LAMBDA id : HasTag(TagsOf(d, id), ToLowerCase(d.tag)))

\* One turn of the while loop of fetchProductsByTag.
FetchProductsPage ==
  /\ UNCHANGED <<call, coll, db>>
  /\ disc.pc = "fetch"
  /\ disc.impl = "paged"
  /\ LET products == ProductsPage(disc, disc.sinceId)
     IN  IF Len(products) = 0
         THEN disc' = [disc EXCEPT !.pages = @ + 1, !.pc = "done"]
         ELSE disc' = [disc EXCEPT
                         !.pages = @ + 1,
                         !.results = @ \o Tagged(disc, products),
                         !.examined = @ \o products,
                         !.sinceId = products[Len(products)],
                         !.pc = IF Len(products) < PageLimit THEN "done" ELSE "fetch"]

\* The snapshot handler of src/server.js: one products request, then the filter.
FilterFirstPage ==
  /\ UNCHANGED <<call, coll, db>>
  /\ disc.pc = "fetch"
  /\ disc.impl = "server"
  /\ LET products == ProductsPage(disc, 0)
     IN  disc' = [disc EXCEPT
                    !.pages = @ + 1,
                    !.results = Tagged(disc, products),
                    !.examined = products,
                    !.pc = "done"]

NextTags == FetchProductsPage \/ FilterFirstPage

(***************************************************************************)
(* Inventory collector: the batch loop of the snapshot handler             *)
(* (src/server.js 534-565, src/unnamed/part_000 431-457).                  *)
(***************************************************************************)

\* `const chunkSize = 40` and `limit: 250` of the inventory_levels request.
ChunkSize == 40
LevelLimit == 250

\* function chunkArray(arr, size): the slices arr.slice(i, i + size) for
\* i = 0, size, 2 * size, ... below arr.length.
chunkArray(arr, size) ==
  [c \in 1..((Len(arr) + size - 1) \div size) |->
     SubSeq(arr, (c - 1) * size + 1, Min(c * size, Len(arr)))]

\* `inventoryItemIdsSet.add(v.inventory_item_id)` for the truthy ids, then
\* Array.from: the distinct ids in the order of their first occurrence.
InventoryItemIdsWithDuplicates(items) == SelectSeq(items, LAMBDA id : id # 0)
InventoryItemIds(items) ==
  LET firsts == SelectSeq([i \in 1..Len(items) |-> i],
                          LAMBDA i : /\ items[i] # 0
                                     /\ \A j \in 1..(i - 1) : items[j] # items[i])
  IN  [k \in 1..Len(firsts) |-> items[firsts[k]]]

\* An `available` is <<n>>, or <<>> for null. `lvl.available ?? 0`
AvailableOrZero(a) == IF a = <<>> THEN 0 ELSE a[1]

\* inventoryMap.get(id) || 0
MapGet(map, id) == IF id \in DOMAIN map THEN map[id] ELSE 0

\* `inventoryMap.set(id, current + (lvl.available ?? 0))`
AccumulateOverwrite(current, available) == AvailableOrZero(available)
Accumulate(current, available) == current + AvailableOrZero(available)

\* The value the loop leaves for one id: its levels accumulated in order.
RECURSIVE AccumulateLevels(_, _)
AccumulateLevels(current, levels) ==
  IF Len(levels) = 0 THEN current
  ELSE AccumulateLevels(Accumulate(current, levels[1].available), Tail(levels))

\* `for (const lvl of levels)`: every id of the response gets an entry of the
\* map, the other entries stay.
AccumulateAll(map, levels) ==
  [id \in DOMAIN map \cup {levels[e].inventory_item_id : e \in 1..Len(levels)} |->
     AccumulateLevels(MapGet(map, id),
                      SelectSeq(levels, LAMBDA lvl : lvl.inventory_item_id = id))]

\* The upstream's inventory: item id is stocked at locations 1..nLoc, with
\* the available quantity the pattern gives (id, location).
LevelAt(up, id, loc) ==
  [inventory_item_id |-> id, location_id |-> loc,
   available |-> up.pat[((id + loc) % Len(up.pat)) + 1]]

\* The level entries of the ids, id by id and location by location.
\* The stock items the upstream holds no level for (not tracked, not stocked
\* at any location): the answer has no entry for them.
Untracked(up) == IF "untracked" \in DOMAIN up THEN up.untracked ELSE {}

LevelsOf(up, ids) ==
  LET tracked == SelectSeq(ids, LAMBDA id : id \notin Untracked(up))
  IN  [e \in 1..(Len(tracked) * up.nLoc) |->
         LevelAt(up, tracked[((e - 1) \div up.nLoc) + 1], ((e - 1) % up.nLoc) + 1)]

\* The upstream's answer to inventory_levels.json for the requested ids: their
\* level entries, at most `limit` of them (the handler never asks for a next page).
InventoryLevels(up, ids) ==
  SubSeq(LevelsOf(up, ids), 1, Min(LevelLimit, Len(LevelsOf(up, ids))))

CollStart(items, up, size) ==
  [items |-> items, up |-> up, size |-> size,
   idChunks |-> chunkArray(InventoryItemIds(items), size),
   index |-> 1, inventoryMap |-> <<>>, responses |-> <<>>, requested |-> <<>>,
   pauses |-> 0, pc |-> "batch"]

CollIdle == [CollStart(<<>>, [nLoc |-> 1, pat |-> <<<<>>>>], ChunkSize) EXCEPT !.pc = "idle"]

\* One turn of the batch loop: the request, the accumulation of its levels and,
\* when another batch follows, the pause.
CollectBatch ==
  /\ UNCHANGED <<call, disc, db>>
  /\ coll.pc = "batch"
  /\ coll.index <= Len(coll.idChunks)
  /\ LET idsChunk == coll.idChunks[coll.index]
         levels == InventoryLevels(coll.up, idsChunk)
     IN  coll' = [coll EXCEPT
                    !.requested = Append(@, idsChunk),
                    !.responses = Append(@, levels),
                    !.inventoryMap = AccumulateAll(@, levels),
                    !.pauses = IF coll.index + 1 <= Len(coll.idChunks) THEN @ + 1 ELSE @,
                    !.index = @ + 1]

\* The loop is over.
CollectDone ==
  /\ UNCHANGED <<call, disc, db>>
  /\ coll.pc = "batch"
  /\ coll.index > Len(coll.idChunks)
  /\ coll' = [coll EXCEPT !.pc = "done"]

\* Bounds of the collections: every list of at most MaxItems variants over the
\* item ids 0..MaxItemId (0: a variant without inventory_item_id), every
\* pattern of availabilities <<>>, <<0>>..<<MaxAvail>>, up to MaxLoc locations
\* and batch sizes 1..MaxSize; and full-size lists around one and two batches
\* of ChunkSize ids, stocked at up to FullLoc locations.
MaxItems == 3
MaxItemId == 2
MaxAvail == 2
MaxLoc == 2
MaxSize == 2
FullLoc == 7

Availables == {<<>>} \cup {<<n>> : n \in 0..MaxAvail}

RECURSIVE SeqsUpTo(_, _)
SeqsUpTo(S, n) ==
  IF n = 0 THEN {<<>>}
  ELSE SeqsUpTo(S, n - 1) \cup {Append(q, x) : q \in {r \in SeqsUpTo(S, n - 1) : Len(r) = n - 1}, x \in S}

NextCollect == CollectBatch \/ CollectDone

(***************************************************************************)
(* The batch loop await by await (src/server.js 544-565): the request of a *)
(* batch, the 429s shopifyGet retries after inside it, its response, and   *)
(* the pause before the next batch. `events` is the order in which the     *)
(* loop did these things and `inflight` the requests not yet answered.     *)
(***************************************************************************)
PaceMs == 600

\* The number of 429s the upstream answers to one batch request.
MaxBatchRetries == 1

\* `if (index + 1 < idChunks.length)`, index counted from 0 in the code.
HasNextChunkAlways(index, idChunks) == TRUE
HasNextChunk(index, idChunks) == index + 1 <= Len(idChunks)

PaceStart(items, up, size) ==
  [items |-> items, up |-> up, size |-> size,
   idChunks |-> chunkArray(InventoryItemIds(items), size),
   index |-> 1, inventoryMap |-> <<>>, responses |-> <<>>, requested |-> <<>>,
   pauses |-> 0, pc |-> "batch", inflight |-> 0, retry |-> 0, events |-> <<>>]

\* `await shopifyGet("inventory_levels.json", ...)`: the request leaves.
PaceRequest ==
  /\ UNCHANGED <<call, disc, db>>
  /\ coll.pc = "batch"
  /\ coll.index <= Len(coll.idChunks)
  /\ coll' = [coll EXCEPT
                !.requested = IF coll.retry = 0 THEN Append(@, coll.idChunks[coll.index]) ELSE @,
                !.inflight = @ + 1,
                !.events = Append(@, [ev |-> "request", batch |-> coll.index]),
                !.pc = "await"]

\* The upstream answers 429 and shopifyGet sleeps before it asks again.
PaceRateLimited ==
  /\ UNCHANGED <<call, disc, db>>
  /\ coll.pc = "await"
  /\ coll.retry < MaxBatchRetries
  /\ IsRetryable(429, "server", coll.retry)
  /\ coll' = [coll EXCEPT
                !.inflight = @ - 1,
                !.retry = @ + 1,
                !.events = Append(@, [ev |-> "backoff", batch |-> coll.index]),
                !.pc = "batch"]

\* The answer arrives: its levels are accumulated, and the loop pauses when
\* another batch follows.
PaceResponse ==
  /\ UNCHANGED <<call, disc, db>>
  /\ coll.pc = "await"
  /\ LET levels == InventoryLevels(coll.up, coll.idChunks[coll.index])
     IN  coll' = [coll EXCEPT
                    !.responses = Append(@, levels),
                    !.inventoryMap = AccumulateAll(@, levels),
                    !.inflight = @ - 1,
                    !.retry = 0,
                    !.events = Append(@, [ev |-> "response", batch |-> coll.index]),
                    !.index = IF HasNextChunk(coll.index, coll.idChunks) THEN @ ELSE @ + 1,
                    !.pc = IF HasNextChunk(coll.index, coll.idChunks) THEN "pause" ELSE "batch"]

\* `await sleep(600)`
PacePause ==
  /\ UNCHANGED <<call, disc, db>>
  /\ coll.pc = "pause"
  /\ coll' = [coll EXCEPT
                !.pauses = @ + 1,
                !.events = Append(@, [ev |-> "sleep", batch |-> coll.index, ms |-> PaceMs]),
                !.index = @ + 1,
                !.pc = "batch"]

\* The loop is over.
PaceDone ==
  /\ UNCHANGED <<call, disc, db>>
  /\ coll.pc = "batch"
  /\ coll.index > Len(coll.idChunks)
  /\ coll' = [coll EXCEPT !.pc = "done"]

NextPace == PaceRequest \/ PaceRateLimited \/ PaceResponse \/ PacePause \/ PaceDone

(***************************************************************************)
(* The tables (src/db.js) and the handlers of src/server.js 483-742.       *)
(* A table is the sequence of its rows in rowid order; a timestamp is the  *)
(* value of the clock, which every write advances.                         *)
(***************************************************************************)

\* Bound of the clock: the number of writing requests of a behaviour.
MaxTime == 4

\* `!season`, `!order.line_items`: the value is absent (or the empty string).
MissingNever(x) == FALSE
Missing(x) == x = <<>>

\* The shop: product 1 carries the tags of both seasons, product 2 of one.
ShopCatalog ==
  << [id |-> 1, title |-> "Parka", images |-> <<"parka.jpg">>,
      tags |-> <<"a", ",", " ", "B">>,
      variants |-> << [id |-> 11, title |-> "S", inventory_item_id |-> 1] >>],
     [id |-> 2, title |-> "Scarf", images |-> <<>>,
      tags |-> <<"b">>,
      variants |-> << [id |-> 12, title |-> "One size", inventory_item_id |-> 2] >>] >>

\* The same shop after its products were retitled and given new images.
ShopCatalogRenamed ==
  << [id |-> 1, title |-> "Parka 2", images |-> <<"parka2.jpg", "parka.jpg">>,
      tags |-> <<"a", ",", " ", "B">>,
      variants |-> << [id |-> 11, title |-> "Small", inventory_item_id |-> 1] >>],
     [id |-> 2, title |-> "Scarf", images |-> <<"scarf.jpg">>,
      tags |-> <<"b">>,
      variants |-> << [id |-> 12, title |-> "One size", inventory_item_id |-> 2] >>] >>

Catalogs == {ShopCatalog}

\* The answers of the scenario in which the shop is retitled between runs.
RetitledCatalogs == {ShopCatalog, ShopCatalogRenamed}

\* The stock the upstream reports at the time of a snapshot run.
Stocks ==
  { [nLoc |-> 1, pat |-> <<<<0>>, <<2>>>>],
    [nLoc |-> 1, pat |-> <<<<3>>, <<2>>>>],
    [nLoc |-> 2, pat |-> <<<<1>>, <<1>>>>] }

\* The season keys of the snapshot and report requests; <<>>: none given.
RequestKeys == { <<"a">>, <<"b">>, <<>> }

\* `REPLACE INTO initial_stock`: variant_id is the PRIMARY KEY (src/db.js 9),
\* so the row of the same variant_id, whatever its season, is deleted and the
\* new row is inserted at the end.
InsertOrIgnore(table, row) ==
  IF \E i \in 1..Len(table) : table[i].variant_id = row.variant_id
  THEN table ELSE Append(table, row)
ReplaceInto(table, row) ==
  Append(SelectSeq(table, LAMBDA r : r.variant_id # row.variant_id), row)

RECURSIVE ReplaceAll(_, _)
ReplaceAll(table, rows) ==
  IF Len(rows) = 0 THEN table
  ELSE ReplaceAll(ReplaceInto(table, rows[1]), Tail(rows))

\* `p.images?.[0]?.src || null`
ProductImageLast(p) == IF Len(p.images) > 0 THEN p.images[Len(p.images)] ELSE None
ProductImage(p) == IF Len(p.images) > 0 THEN p.images[1] ELSE None

\* `for (const p of taggedProducts) ... for (const v of p.variants || [])`
RECURSIVE VariantMeta(_)
\* A variantMeta that would skip the variants without inventory_item_id.
RECURSIVE VariantMetaWithItemOnly(_)
VariantMetaWithItemOnly(products) ==
  IF Len(products) = 0 THEN <<>>
  ELSE LET stocked == SelectSeq(products[1].variants, LAMBDA v : v.inventory_item_id # 0)
       IN  [i \in 1..Len(stocked) |->
              [variant_id |-> stocked[i].id,
               inventory_item_id |-> stocked[i].inventory_item_id,
               product_title |-> products[1].title,
               variant_title |-> stocked[i].title,
               image |-> ProductImage(products[1])]]
           \o VariantMetaWithItemOnly(Tail(products))

\* A variantMeta that would keep the first variant of a product only.
RECURSIVE VariantMetaFirstOnly(_)
VariantMetaFirstOnly(products) ==
  IF Len(products) = 0 THEN <<>>
  ELSE [i \in 1..Min(1, Len(products[1].variants)) |->
          [variant_id |-> products[1].variants[i].id,
           inventory_item_id |-> products[1].variants[i].inventory_item_id,
           product_title |-> products[1].title,
           variant_title |-> products[1].variants[i].title,
           image |-> ProductImage(products[1])]]
       \o VariantMetaFirstOnly(Tail(products))

VariantMeta(products) ==
  IF Len(products) = 0 THEN <<>>
  ELSE [i \in 1..Len(products[1].variants) |->
          [variant_id |-> products[1].variants[i].id,
           inventory_item_id |-> products[1].variants[i].inventory_item_id,
           product_title |-> products[1].title,
           variant_title |-> products[1].variants[i].title,
           image |-> ProductImage(products[1])]]
       \o VariantMeta(Tail(products))

\* The batch loop as a whole: the levels of every batch accumulated.
RECURSIVE CollectChunks(_, _, _)
CollectChunks(map, up, chunks) ==
  IF Len(chunks) = 0 THEN map
  ELSE CollectChunks(AccumulateAll(map, InventoryLevels(up, chunks[1])), up, Tail(chunks))

\* `initial_qty: inventoryMap.get(m.inventory_item_id) || 0`
\* A baseline that would prefer the quantity last recorded by the inventory webhook.
InitialQtyFromLedger(inventoryMap, id) ==
  LET seen == { k \in 1..Len(inventory_changes) : inventory_changes[k].inventory_item_id = id }
  IN  IF seen # {}
      THEN inventory_changes[CHOOSE k \in seen : \A j \in seen : j <= k].available
      ELSE IF id \in DOMAIN inventoryMap THEN inventoryMap[id] ELSE 0

InitialQty(inventoryMap, id) == IF id \in DOMAIN inventoryMap THEN inventoryMap[id] ELSE 0

\* The number of inventory_levels.json requests of a run: one per batch.
InventoryRequests(key, catalog) ==
  LET allProducts == SubSeq(catalog, 1, Min(PageLimit, Len(catalog)))
      taggedProducts == SelectSeq(allProducts, LAMBDA p : HasTag(p.tags, ToLowerCase(Trim(key))))
      variantMeta == VariantMeta(taggedProducts)
  IN  Len(chunkArray(InventoryItemIds([i \in 1..Len(variantMeta) |->
                                         variantMeta[i].inventory_item_id]), ChunkSize))

\* Steps 1 to 5 of the snapshot handler: the rows to insert.
ToInsert(key, catalog, up) ==
  LET tag == Trim(key)
      allProducts == SubSeq(catalog, 1, Min(PageLimit, Len(catalog)))
      taggedProducts == SelectSeq(allProducts, LAMBDA p : HasTag(p.tags, ToLowerCase(tag)))
      variantMeta == VariantMeta(taggedProducts)
      inventoryItemIds ==
        InventoryItemIds([i \in 1..Len(variantMeta) |-> variantMeta[i].inventory_item_id])
      inventoryMap == CollectChunks(<<>>, up, chunkArray(inventoryItemIds, ChunkSize))
  IN  [i \in 1..Len(variantMeta) |->
         [variant_id |-> variantMeta[i].variant_id,
          product_title |-> variantMeta[i].product_title,
          variant_title |-> variantMeta[i].variant_title,
          image |-> variantMeta[i].image,
          initial_qty |-> InitialQty(inventoryMap, variantMeta[i].inventory_item_id),
          season |-> tag]]

\* The row `REPLACE INTO initial_stock (variant_id, product_title,
\* variant_title, image, initial_qty, season, snapshot_at)` stores; the
\* column sku, not listed, is NULL.
StockRowKeepingTime(i, at) ==
  LET old == SelectSeq(initial_stock,
                       LAMBDA r : r.variant_id = i.variant_id /\ r.season = i.season)
  IN  [variant_id |-> i.variant_id, sku |-> None, product_title |-> i.product_title,
       variant_title |-> i.variant_title, image |-> i.image,
       initial_qty |-> i.initial_qty, season |-> i.season,
       snapshot_at |-> IF Len(old) = 0 THEN at ELSE old[1].snapshot_at]
StockRow(i, at) ==
  [variant_id |-> i.variant_id, sku |-> None, product_title |-> i.product_title,
   variant_title |-> i.variant_title, image |-> i.image,
   initial_qty |-> i.initial_qty, season |-> i.season, snapshot_at |-> at]

\* POST /api/initial_stock/snapshot, the upstream answering every request.
Snapshot(key, catalog, up) ==
  /\ UNCHANGED <<call, disc, coll, writes, run, sales, inventory_changes>>
  /\ now < MaxTime
  /\ ~Missing(key)
  /\ upstream' = upstream + 1 + InventoryRequests(key, catalog)
  /\ LET toInsert == ToInsert(key, catalog, up)
     IN  /\ initial_stock' =
              ReplaceAll(initial_stock, [i \in 1..Len(toInsert) |-> StockRow(toInsert[i], now)])
         /\ response' = [status |-> 200, op |-> "snapshot", inserted |-> Len(toInsert), rows |-> <<>>]
  /\ received' = Append(received, [op |-> "snapshot", key |-> key, catalog |-> catalog,
                                       up |-> up, at |-> now])
  /\ now' = now + 1

\* `if (!season) return res.status(400)`
SnapshotRejected(key) ==
  /\ UNCHANGED <<call, disc, coll, writes, run, initial_stock, sales, inventory_changes, now, received, upstream>>
  /\ Missing(key)
  /\ response' = [status |-> 400, op |-> "snapshot", inserted |-> 0, rows |-> <<>>]

\* An order of the orders/create webhook: line_items is <<>> when the body
\* has none and <<items>> when it has the array `items`.
Orders ==
  { [id |-> 1001, created_at |-> "d1", line_items |-> << <<[variant_id |-> 11, sku |-> "PK-S", quantity |-> <<1>>]>> >>],
    [id |-> 1002, created_at |-> "d2",
     line_items |-> << <<[variant_id |-> 11, sku |-> "PK-S", quantity |-> <<2>>],
                         [variant_id |-> 12, sku |-> None, quantity |-> <<>>],
                         [variant_id |-> 12, sku |-> None, quantity |-> <<1>>]>> >>],
    [id |-> 1003, created_at |-> "d3", line_items |-> << <<>> >>],
    [id |-> 1004, created_at |-> "d4", line_items |-> <<>>] }

\* `line.quantity || 0`, `p.available || 0`: <<>> is a missing value.
OrZero(x) == IF x = <<>> THEN 0 ELSE x[1]

\* `INSERT INTO sales (variant_id, sku, qty, order_id, created_at)`, id AUTOINCREMENT
SalesRow(id, order, line) ==
  [id |-> id, variant_id |-> line.variant_id, sku |-> line.sku,
   qty |-> OrZero(line.quantity), order_id |-> order.id, created_at |-> order.created_at]

\* `order.line_items.map((line) => db.run(INSERT INTO sales ...))`: the rows
\* the delivery of an order adds, whatever the ledger holds already.
NewSalesOnce(order) ==
  IF \E j \in 1..Len(sales) : sales[j].order_id = order.id THEN <<>>
  ELSE [k \in 1..Len(order.line_items[1]) |->
          SalesRow(Len(sales) + k, order, order.line_items[1][k])]
NewSales(order) ==
  [k \in 1..Len(order.line_items[1]) |->
     SalesRow(Len(sales) + k, order, order.line_items[1][k])]

\* POST /webhooks/orders_create: one row per line item.
OrdersCreate(order) ==
  /\ UNCHANGED <<call, disc, coll, writes, run, initial_stock, inventory_changes, upstream>>
  /\ now < MaxTime
  /\ ~Missing(order.line_items)
  /\ sales' = sales \o NewSales(order)
  /\ response' = [status |-> 200, op |-> "orders_create", inserted |-> 0, rows |-> <<>>]
  /\ received' = Append(received, [op |-> "orders_create", order |-> order, at |-> now])
  /\ now' = now + 1

\* `if (!order || !order.line_items) return res.status(400).end()`
OrdersRejected(order) ==
  /\ UNCHANGED <<call, disc, coll, writes, run, initial_stock, sales, inventory_changes, now, received, upstream>>
  /\ Missing(order.line_items)
  /\ response' = [status |-> 400, op |-> "orders_create", inserted |-> 0, rows |-> <<>>]

\* The events of the inventory_levels/update webhook.
InventoryEvents ==
  { [inventory_item_id |-> i, location_id |-> 1, available |-> a] :
      i \in {1, 2}, a \in {<<>>, <<9>>, <<10>>, <<14>>} }

\* `INSERT INTO inventory_changes (inventory_item_id, location_id, available,
\* recorded_at)`, id AUTOINCREMENT: the table has no other column.
ChangeRowWithDelta(id, p, at) ==
  LET prior == SelectSeq(inventory_changes,
                         LAMBDA r : /\ r.inventory_item_id = p.inventory_item_id
                                    /\ r.location_id = p.location_id)
  IN  [id |-> id, inventory_item_id |-> p.inventory_item_id, location_id |-> p.location_id,
       available |-> OrZero(p.available), recorded_at |-> at,
       delta |-> IF Len(prior) = 0 THEN 0 ELSE OrZero(p.available) - prior[Len(prior)].available]
ChangeRow(id, p, at) ==
  [id |-> id, inventory_item_id |-> p.inventory_item_id, location_id |-> p.location_id,
   available |-> OrZero(p.available), recorded_at |-> at]

\* `await db.run(INSERT INTO inventory_changes ...)`: the table after it.
RecordChangeLatestOnly(p, at) ==
  Append(SelectSeq(inventory_changes,
                   LAMBDA r : ~(/\ r.inventory_item_id = p.inventory_item_id
                                /\ r.location_id = p.location_id)),
         ChangeRow(Len(inventory_changes) + 1, p, at))
\* A handler that would drop an event lacking an id or a quantity.
RecordChangeIfComplete(p, at) ==
  IF p.inventory_item_id = 0 \/ p.location_id = 0 \/ p.available = <<>>
  THEN inventory_changes
  ELSE Append(inventory_changes, ChangeRow(Len(inventory_changes) + 1, p, at))
RecordChange(p, at) ==
  Append(inventory_changes, ChangeRow(Len(inventory_changes) + 1, p, at))

\* POST /webhooks/inventory_levels_update
InventoryLevelsUpdate(p) ==
  /\ UNCHANGED <<call, disc, coll, writes, run, initial_stock, sales, upstream>>
  /\ now < MaxTime
  /\ inventory_changes' = RecordChange(p, now)
  /\ response' = [status |-> 200, op |-> "inventory_levels_update", inserted |-> 0, rows |-> <<>>]
  /\ received' = Append(received, [op |-> "inventory_levels_update", p |-> p, at |-> now])
  /\ now' = now + 1

\* `SELECT variant_id, SUM(qty) AS sold FROM sales GROUP BY variant_id`, then
\* `soldMap.get(String(i.variant_id)) || 0`
SumQtySinceSnapshot(rows, variant_id) ==
  LET stock == SelectSeq(initial_stock, LAMBDA r : r.variant_id = variant_id)
      later == { j \in 1..Len(received) :
                   /\ received[j].op = "orders_create"
                   /\ Len(stock) > 0 /\ received[j].at >= stock[1].snapshot_at }
      Qty(line) == IF line.variant_id = variant_id THEN OrZero(line.quantity) ELSE 0
      RECURSIVE Total(_)
      Total(lines) == IF Len(lines) = 0 THEN 0 ELSE Qty(lines[1]) + Total(Tail(lines))
      RECURSIVE Over(_)
      Over(S) == IF S = {} THEN 0
                 ELSE LET j == CHOOSE x \in S : TRUE
                      IN  Total(received[j].order.line_items[1]) + Over(S \ {j})
  IN  Over(later)
RECURSIVE SumQty(_, _)
SumQty(rows, variant_id) ==
  IF Len(rows) = 0 THEN 0
  ELSE (IF rows[1].variant_id = variant_id THEN rows[1].qty ELSE 0) + SumQty(Tail(rows), variant_id)

Sold(variant_id) == SumQty(sales, variant_id)

\* `Number(((sold / initial_qty) * 100).toFixed(1))` in tenths of a percent:
\* the tenth nearest to the quotient (exact below initial_qty = 16, where no
\* quotient lies halfway between two tenths).
ToFixed1Floor(sold, initial_qty) == (sold * 1000) \div initial_qty
ToFixed1(sold, initial_qty) == (sold * 2000 + initial_qty) \div (2 * initial_qty)

\* `const pct = i.initial_qty ? (sold / i.initial_qty) * 100 : 0`, rounded.
PctFull(initial_qty, sold) == IF initial_qty # 0 THEN ToFixed1(sold, initial_qty) ELSE 1000
Pct(initial_qty, sold) == IF initial_qty # 0 THEN ToFixed1(sold, initial_qty) ELSE 0

\* `i.initial_qty ? (sold / i.initial_qty) * 100 : null` of the first
\* generation: <<>> is null, <<t>> the rounded percentage.
PctOrNull(initial_qty, sold) == IF initial_qty # 0 THEN <<ToFixed1(sold, initial_qty)>> ELSE <<>>

\* `SELECT * FROM initial_stock WHERE season = ?`
SeasonRowsOfAnySeason(season) == initial_stock
SeasonRows(season) == SelectSeq(initial_stock, LAMBDA r : r.season = season)

\* A row of the report; sell_through_pct is in tenths of a percent.
ResultRowWithChanges(i) ==
  LET initial == i.initial_qty + Len(inventory_changes)
  IN  [product_title |-> i.product_title, variant_title |-> i.variant_title,
       image |-> i.image, initial |-> initial, sold |-> Sold(i.variant_id),
       sell_through_pct |-> Pct(initial, Sold(i.variant_id))]
ResultRow(i) ==
  [product_title |-> i.product_title, variant_title |-> i.variant_title,
   image |-> i.image, initial |-> i.initial_qty, sold |-> Sold(i.variant_id),
   sell_through_pct |-> Pct(i.initial_qty, Sold(i.variant_id))]

\* A row of the report of the first generation.
ResultRowFirst(i) ==
  [variant_id |-> i.variant_id, sku |-> i.sku, initial |-> i.initial_qty,
   sold |-> Sold(i.variant_id),
   sell_through_pct |-> PctOrNull(i.initial_qty, Sold(i.variant_id))]

\* `const results = initial.map((i) => {...})`: one row per snapshot row.
ResultRowsByProduct(initial) ==
  LET firsts == SelectSeq([k \in 1..Len(initial) |-> k],
                          LAMBDA k : \A j \in 1..(k - 1) :
                                       initial[j].product_title # initial[k].product_title)
      RECURSIVE Sum(_, _, _)
      Sum(F(_), title, k) ==
        IF k = 0 THEN 0
        ELSE (IF initial[k].product_title = title THEN F(initial[k]) ELSE 0) + Sum(F, title, k - 1)
      Qty(i) == i.initial_qty
      SoldOf(i) == Sold(i.variant_id)
  IN  [n \in 1..Len(firsts) |->
         LET i == initial[firsts[n]]
             total == Sum(Qty, i.product_title, Len(initial))
             sold == Sum(SoldOf, i.product_title, Len(initial))
         IN  [product_title |-> i.product_title, variant_title |-> None, image |-> i.image,
              initial |-> total, sold |-> sold, sell_through_pct |-> Pct(total, sold)]]
ResultRowsReversed(initial) ==
  [k \in 1..Len(initial) |-> ResultRow(initial[Len(initial) + 1 - k])]
ResultRows(initial) == [k \in 1..Len(initial) |-> ResultRow(initial[k])]

\* GET /api/sellthrough (src/server.js 707-742)
SellThrough(season) ==
  /\ UNCHANGED <<call, disc, coll, writes, run, initial_stock, sales, inventory_changes, now, received, upstream>>
  /\ ~Missing(season)
  /\ LET initial == SeasonRows(season)
     IN  response' = [status |-> 200, op |-> "sellthrough", season |-> season, inserted |-> 0,
                      rows |-> ResultRows(initial)]

\* GET /api/sellthrough of the first generation (src/server.js 313-347)
SellThroughFirst(season) ==
  /\ UNCHANGED <<call, disc, coll, writes, run, initial_stock, sales, inventory_changes, now, received, upstream>>
  /\ ~Missing(season)
  /\ LET initial == SeasonRows(season)
     IN  response' = [status |-> 200, op |-> "sellthrough_first", season |-> season, inserted |-> 0,
                      rows |-> [k \in 1..Len(initial) |-> ResultRowFirst(initial[k])]]

\* `if (!season) return res.status(400)`
SellThroughRejected(season) ==
  /\ UNCHANGED <<call, disc, coll, writes, run, initial_stock, sales, inventory_changes, now, received, upstream>>
  /\ Missing(season)
  /\ response' = [status |-> 400, op |-> "sellthrough", season |-> season, inserted |-> 0, rows |-> <<>>]

\* The requests of the reporting scenario.
ReportStocks == { [nLoc |-> 1, pat |-> <<<<0>>, <<3>>>>], [nLoc |-> 1, pat |-> <<<<3>>, <<7>>>>] }
ReportOrders == { o \in Orders : o.id \in {1001, 1002} }
ReportEvents == { [inventory_item_id |-> 1, location_id |-> 1, available |-> a] : a \in {<<1>>, <<5>>} }

\* The requests of the listing scenario: a product of two variants listed
\* before a product of one, whose stock may be 0.
ListingCatalog ==
  << [id |-> 3, title |-> "Scarf", images |-> <<"scarf.jpg">>, tags |-> <<"b">>,
      variants |-> << [id |-> 21, title |-> "Red", inventory_item_id |-> 1],
                      [id |-> 22, title |-> "Blue", inventory_item_id |-> 2] >>],
     [id |-> 4, title |-> "Parka", images |-> <<>>, tags |-> <<"b">>,
      variants |-> << [id |-> 23, title |-> "S", inventory_item_id |-> 3] >>] >>
ListingStocks ==
  { [nLoc |-> 1, pat |-> <<<<3>>, <<0>>, <<1>>>>],
    [nLoc |-> 1, pat |-> <<<<2>>, <<4>>, <<2>>>>] }
ListingOrders ==
  { [id |-> 2000 + v, created_at |-> "d", line_items |-> << <<[variant_id |-> v, sku |-> None, quantity |-> <<1>>]>> >>] :
      v \in {21, 22, 23} }

NextSnapshots ==
  \E key \in RequestKeys :
     \/ \E catalog \in Catalogs, up \in Stocks : Snapshot(key, catalog, up)
     \/ SnapshotRejected(key)

NextCatalog ==
  \E key \in {<<"a">>, <<"b">>}, catalog \in RetitledCatalogs :
     Snapshot(key, catalog, [nLoc |-> 1, pat |-> <<<<3>>, <<2>>>>])

NextListing ==
  \/ \E up \in ListingStocks : Snapshot(<<"b">>, ListingCatalog, up)
  \/ \E order \in ListingOrders : OrdersCreate(order)
  \/ SellThrough(<<"b">>)
  \/ SellThroughFirst(<<"b">>)

NextRequests ==
  \/ \E key \in RequestKeys :
        \/ Snapshot(key, ShopCatalog, [nLoc |-> 1, pat |-> <<<<3>>, <<2>>>>])
        \/ SnapshotRejected(key)
        \/ SellThrough(key)
        \/ SellThroughRejected(key)
  \/ \E order \in Orders : OrdersCreate(order) \/ OrdersRejected(order)

NextLedgers ==
  \/ \E p \in InventoryEvents : InventoryLevelsUpdate(p)
  \/ \E order \in Orders : OrdersCreate(order) \/ OrdersRejected(order)

NextReport ==
  \/ \E up \in ReportStocks : Snapshot(<<"b">>, ShopCatalog, up)
  \/ \E order \in ReportOrders : OrdersCreate(order)
  \/ \E p \in ReportEvents : InventoryLevelsUpdate(p)
  \/ \E season \in RequestKeys :
        SellThrough(season) \/ SellThroughFirst(season) \/ SellThroughRejected(season)

(***************************************************************************)
(* The snapshot handler step by step (src/server.js 483-607): the products *)
(* request, one inventory request per batch, then the writes and the       *)
(* answer. Webhooks may be served between two steps of a run.              *)
(***************************************************************************)

\* A shop whose tagged product has one variant more than a batch holds.
WideCatalog ==
  << [id |-> 5, title |-> "Socks", images |-> <<>>, tags |-> <<"b">>,
      variants |-> [i \in 1..(ChunkSize + 1) |->
                      [id |-> 100 + i, title |-> "One size", inventory_item_id |-> i]]] >>

\* A run whose failAt-th upstream call fails, retries included (0: none does).
RunStarted(key, catalog, up, failAt) ==
  [pc |-> "products", key |-> key, catalog |-> catalog, up |-> up, failAt |-> failAt,
   calls |-> 0, variantMeta |-> <<>>, idChunks |-> <<>>, index |-> 1, inventoryMap |-> <<>>,
   started |-> now, before |-> initial_stock]

RunIdle ==
  [pc |-> "idle", key |-> <<>>, catalog |-> <<>>, up |-> [nLoc |-> 1, pat |-> <<<<0>>>>],
   failAt |-> 0, calls |-> 0, variantMeta |-> <<>>, idChunks |-> <<>>, index |-> 1,
   inventoryMap |-> <<>>, started |-> 0, before |-> <<>>]

\* The next shopifyGet of the run throws.
CallFailsNever(r) == FALSE
CallFails(r) == r.failAt = r.calls + 1

\* `const { season } = req.body; if (!season) ...; const tag = season.trim()`
RunStart(key, catalog, up, failAt) ==
  /\ UNCHANGED <<call, disc, coll, writes, initial_stock, sales, inventory_changes, now, response,
                 received, upstream>>
  /\ run.pc = "idle"
  /\ now < MaxTime
  /\ ~Missing(key)
  /\ run' = RunStarted(key, catalog, up, failAt)

\* Steps 1 to 3: the products request, the tag filter, variantMeta and the
\* inventory item ids in batches.
RunProducts ==
  /\ UNCHANGED <<call, disc, coll, writes, initial_stock, sales, inventory_changes, now, response,
                 received>>
  /\ run.pc = "products"
  /\ ~CallFails(run)
  /\ upstream' = upstream + 1
  /\ LET allProducts == SubSeq(run.catalog, 1, Min(PageLimit, Len(run.catalog)))
         taggedProducts ==
           SelectSeq(allProducts, LAMBDA p : HasTag(p.tags, ToLowerCase(Trim(run.key))))
         variantMeta == VariantMeta(taggedProducts)
         idChunks ==
           chunkArray(InventoryItemIds([i \in 1..Len(variantMeta) |->
                                          variantMeta[i].inventory_item_id]), ChunkSize)
     IN  run' = [run EXCEPT !.calls = @ + 1, !.variantMeta = variantMeta,
                            !.idChunks = idChunks,
                            !.pc = IF Len(idChunks) = 0 THEN "write" ELSE "inventory"]

\* Step 4, one turn of the loop: the inventory request of a batch.
RunInventory ==
  /\ UNCHANGED <<call, disc, coll, writes, initial_stock, sales, inventory_changes, now, response,
                 received>>
  /\ run.pc = "inventory"
  /\ ~CallFails(run)
  /\ upstream' = upstream + 1
  /\ run' = [run EXCEPT !.calls = @ + 1,
                        !.inventoryMap =
                          AccumulateAll(@, InventoryLevels(run.up, run.idChunks[run.index])),
                        !.index = @ + 1,
                        !.pc = IF run.index + 1 > Len(run.idChunks) THEN "write" ELSE "inventory"]

\* Steps 5 and 6: the rows, their REPLACE INTO and the answer.
RunWrite ==
  /\ UNCHANGED <<call, disc, coll, writes, sales, inventory_changes, upstream>>
  /\ run.pc = "write"
  /\ LET toInsert ==
           [i \in 1..Len(run.variantMeta) |->
              [variant_id |-> run.variantMeta[i].variant_id,
               product_title |-> run.variantMeta[i].product_title,
               variant_title |-> run.variantMeta[i].variant_title,
               image |-> run.variantMeta[i].image,
               initial_qty |-> InitialQty(run.inventoryMap, run.variantMeta[i].inventory_item_id),
               season |-> Trim(run.key)]]
     IN  /\ initial_stock' =
              ReplaceAll(initial_stock, [i \in 1..Len(toInsert) |-> StockRow(toInsert[i], now)])
         /\ response' = [status |-> 200, op |-> "snapshot", inserted |-> Len(toInsert), rows |-> <<>>]
  /\ received' = Append(received, [op |-> "snapshot", key |-> run.key, catalog |-> run.catalog,
                                    up |-> run.up, at |-> now, started |-> run.started])
  /\ now' = now + 1
  /\ run' = RunIdle

\* shopifyGet throws: `catch (e) { res.status(500).json({ error: "snapshot failed" }) }`
RunFail ==
  /\ UNCHANGED <<call, disc, coll, writes, initial_stock, sales, inventory_changes, received>>
  /\ run.pc \in {"products", "inventory"}
  /\ CallFails(run)
  /\ upstream' = upstream + 1
  /\ response' = [status |-> 500, op |-> "snapshot", inserted |-> 0, rows |-> <<>>]
  /\ now' = now + 1
  /\ run' = RunIdle

\* The requests of the scenario of a run with webhooks in between.
RunOrders ==
  { [id |-> 3001, created_at |-> "d", line_items |-> << <<[variant_id |-> 101, sku |-> None, quantity |-> <<1>>]>> >>] }
RunEvents == { [inventory_item_id |-> 1, location_id |-> 1, available |-> <<4>>] }

\* A shop whose tag strings tell the readings of a season key apart: a product
\* with two tags and two variants, one whose single tag holds a semicolon, one
\* with one tag, and one whose tag string ends with an empty segment.
TagCatalog ==
  << [id |-> 1, title |-> "Parka", images |-> <<>>, tags |-> <<"a", ",", " ", "B">>,
      variants |-> << [id |-> 31, title |-> "S", inventory_item_id |-> 1],
                      [id |-> 32, title |-> "M", inventory_item_id |-> 2] >>],
     [id |-> 2, title |-> "Scarf", images |-> <<>>, tags |-> <<"a", ";", "b">>,
      variants |-> << [id |-> 33, title |-> "One size", inventory_item_id |-> 3] >>],
     [id |-> 3, title |-> "Cap", images |-> <<>>, tags |-> <<"a">>,
      variants |-> << [id |-> 34, title |-> "One size", inventory_item_id |-> 4] >>],
     [id |-> 4, title |-> "Belt", images |-> <<>>, tags |-> <<"c", ",", " ">>,
      variants |-> << [id |-> 35, title |-> "One size", inventory_item_id |-> 5] >>] >>

\* Season keys: "b", "A, b", "a;b", a blank and the empty string.
SeasonRequestKeys ==
  { <<"b">>, <<"A", ",", " ", "b">>, <<"a", ";", "b">>, <<" ">>, <<>> }

SeasonStock == [nLoc |-> 1, pat |-> <<<<1>>, <<2>>, <<3>>>>]

NextSeason ==
  \E key \in SeasonRequestKeys :
     \/ Snapshot(key, TagCatalog, SeasonStock)
     \/ SnapshotRejected(key)

\* The end-to-end scenario: two products of season b with three variants of
\* baselines 10, 5 and 0, a product of season a, two sales of variant 21
\* totalling 4 and an observation of 13 for the stock item of variant 22.
ScenarioCatalog ==
  << [id |-> 3, title |-> "Scarf", images |-> <<>>, tags |-> <<"b">>,
      variants |-> << [id |-> 21, title |-> "Red", inventory_item_id |-> 1],
                      [id |-> 22, title |-> "Blue", inventory_item_id |-> 2] >>],
     [id |-> 4, title |-> "Parka", images |-> <<>>, tags |-> <<"b">>,
      variants |-> << [id |-> 23, title |-> "S", inventory_item_id |-> 3] >>],
     [id |-> 6, title |-> "Cap", images |-> <<>>, tags |-> <<"a">>,
      variants |-> << [id |-> 24, title |-> "One size", inventory_item_id |-> 4] >>] >>
ScenarioStock == [nLoc |-> 1, pat |-> <<<<0>>, <<2>>, <<10>>, <<5>>>>]
ScenarioOrders ==
  { [id |-> 4000 + q, created_at |-> "d",
     line_items |-> << <<[variant_id |-> 21, sku |-> None, quantity |-> <<q>>]>> >>] : q \in {1, 3} }
ScenarioEvents == { [inventory_item_id |-> 2, location_id |-> 1, available |-> <<13>>] }
ScenarioKeys == { <<"a">>, <<"b">> }

NextScenario ==
  \/ \E key \in ScenarioKeys : Snapshot(key, ScenarioCatalog, ScenarioStock)
  \/ \E order \in ScenarioOrders : OrdersCreate(order)
  \/ \E p \in ScenarioEvents : InventoryLevelsUpdate(p)
  \/ \E season \in ScenarioKeys : SellThrough(season)

\* A product whose second variant has a stock item the upstream may hold no
\* level for, and whose third variant has no inventory_item_id (0).
UntrackedCatalog ==
  << [id |-> 7, title |-> "Gloves", images |-> <<>>, tags |-> <<"b">>,
      variants |-> << [id |-> 41, title |-> "S", inventory_item_id |-> 1],
                      [id |-> 42, title |-> "M", inventory_item_id |-> 2],
                      [id |-> 43, title |-> "L", inventory_item_id |-> 0] >>] >>
UntrackedStocks ==
  { [nLoc |-> n, pat |-> <<<<3>>, <<2>>>>, untracked |-> u] :
      n \in {1, 2}, u \in {{}, {2}, {1, 2}} }

NextUntracked ==
  \E up \in UntrackedStocks : Snapshot(<<"b">>, UntrackedCatalog, up)

\* Event bodies with and without their fields: an id of 0 is a missing id (ids
\* are positive) and is stored as the NULL of `p.inventory_item_id || null`,
\* an available of <<>> is a missing quantity.
MalformedEvents ==
  { [inventory_item_id |-> i, location_id |-> l, available |-> a] :
      i \in {0, 1}, l \in {0, 1}, a \in {<<>>, <<5>>} }

NextMalformed == \E p \in MalformedEvents : InventoryLevelsUpdate(p)

NextRun ==
  \/ \E failAt \in 0..3 :
        RunStart(<<"b">>, WideCatalog, [nLoc |-> 1, pat |-> <<<<1>>, <<2>>>>], failAt)
  \/ RunProducts
  \/ RunInventory
  \/ RunWrite
  \/ RunFail
  \/ \E order \in RunOrders : OrdersCreate(order)
  \/ \E p \in RunEvents : InventoryLevelsUpdate(p)

(***************************************************************************)
(* The writes of a snapshot or of an import one by one: `await             *)
(* Promise.all(rows.map((i) => db.run("REPLACE INTO initial_stock ...")))` *)
(* (src/server.js 581-607, 613-643). Every db.run is issued, with its      *)
(* timestamp, when the handler reaches the statement; the driver runs the  *)
(* issued statements one at a time in an order it does not promise         *)
(* (src/db.js 6: sqlite3.Database, never serialized); Promise.all rejects, *)
(* and the handler answers 500, at the first statement that fails, while   *)
(* the others still run. `writes` holds the statements issued and not yet  *)
(* run, the operations that issued them and their answers.                 *)
(***************************************************************************)
WritesIdle == [pending |-> {}, ops |-> <<>>, answers |-> <<>>]

\* The requests to POST /api/initial_stock/import: items with or without title
\* and quantity.
ImportItems ==
  { << [variant_id |-> 51, product_title |-> "Hat", initial_qty |-> <<q>>],
       [variant_id |-> 52, product_title |-> None, initial_qty |-> <<>>] >> : q \in {4, 6} }

\* `[i.variant_id, i.product_title || null, i.variant_title || null,
\*   i.image || null, i.initial_qty || 0, season, new Date().toISOString()]`
ImportRowKeepingBaseline(i, season, at) ==
  LET old == SelectSeq(initial_stock,
                       LAMBDA r : r.variant_id = i.variant_id /\ r.season = season)
  IN  [variant_id |-> i.variant_id, sku |-> None, product_title |-> i.product_title,
       variant_title |-> None, image |-> None,
       initial_qty |-> IF Len(old) = 0 THEN OrZero(i.initial_qty) ELSE old[1].initial_qty,
       season |-> season,
       snapshot_at |-> IF Len(old) = 0 THEN at ELSE old[1].snapshot_at]
ImportRow(i, season, at) ==
  [variant_id |-> i.variant_id, sku |-> None, product_title |-> i.product_title,
   variant_title |-> None, image |-> None,
   initial_qty |-> OrZero(i.initial_qty), season |-> season, snapshot_at |-> at]

\* POST /api/initial_stock/import when every write succeeds. `items` is <<>>
\* when the body has none and <<list>> when it has a list, empty or not.
Import(season, items) ==
  /\ UNCHANGED <<call, disc, coll, writes, run, sales, inventory_changes, upstream>>
  /\ now < MaxTime
  /\ ~Missing(season) /\ ~Missing(items)
  /\ initial_stock' =
       ReplaceAll(initial_stock,
                  [k \in 1..Len(items[1]) |-> ImportRow(items[1][k], season, now)])
  /\ response' = [status |-> 200, op |-> "import", inserted |-> Len(items[1]), rows |-> <<>>]
  /\ received' = Append(received, [op |-> "import", season |-> season, items |-> items[1],
                                    at |-> now])
  /\ now' = now + 1

\* `if (!season || !items) return res.status(400)`
ImportRejected(season, items) ==
  /\ UNCHANGED <<call, disc, coll, writes, run, initial_stock, sales, inventory_changes, now,
                 received, upstream>>
  /\ Missing(season) \/ Missing(items)
  /\ response' = [status |-> 400, op |-> "import", inserted |-> 0, rows |-> <<>>]

\* An operation reaches its Promise.all with `rows`, of which the failing-th
\* statement will fail (0: none).
Issue(kind, season, rows, failing) ==
  LET id == Len(writes.ops) + 1
  IN  [pending |-> writes.pending \cup
                     { [op |-> id, k |-> k, row |-> rows[k], fails |-> (k = failing)] :
                         k \in 1..Len(rows) },
       ops |-> Append(writes.ops, [kind |-> kind, season |-> season, rows |-> rows,
                                   failing |-> failing, before |-> initial_stock]),
       answers |-> Append(writes.answers, 0)]

\* The snapshot handler has read the upstream and issues its writes.
SnapshotWrites(key, catalog, up, failing) ==
  /\ UNCHANGED <<call, disc, coll, run, initial_stock, sales, inventory_changes, response,
                 received>>
  /\ now < MaxTime
  /\ ~Missing(key)
  /\ upstream' = upstream + 1 + InventoryRequests(key, catalog)
  /\ LET toInsert == ToInsert(key, catalog, up)
     IN  /\ failing <= Len(toInsert)
         /\ writes' = Issue("snapshot", Trim(key),
                            [i \in 1..Len(toInsert) |-> StockRow(toInsert[i], now)], failing)
  /\ now' = now + 1

\* The import handler issues its writes.
ImportWrites(season, items, failing) ==
  /\ UNCHANGED <<call, disc, coll, run, initial_stock, sales, inventory_changes, response,
                 received, upstream>>
  /\ now < MaxTime
  /\ ~Missing(season) /\ ~Missing(items)
  /\ failing <= Len(items[1])
  /\ writes' = Issue("import", season,
                     [k \in 1..Len(items[1]) |-> ImportRow(items[1][k], season, now)], failing)
  /\ now' = now + 1

\* A driver that would undo the writes of an operation when one of them fails.
RunStatementRollingBack(job) ==
  /\ UNCHANGED <<call, disc, coll, run, sales, inventory_changes, now, received, upstream>>
  /\ job \in writes.pending
  /\ initial_stock' = IF job.fails THEN writes.ops[job.op].before
                      ELSE ReplaceInto(initial_stock, job.row)
  /\ writes' = [writes EXCEPT
                  !.pending = IF job.fails THEN { j \in @ : j.op # job.op } ELSE @ \ {job},
                  !.answers[job.op] = IF job.fails /\ @ = 0 THEN 500 ELSE @]
  /\ response' = IF job.fails /\ writes.answers[job.op] = 0
                 THEN [status |-> 500, op |-> writes.ops[job.op].kind, inserted |-> 0,
                       rows |-> <<>>]
                 ELSE response

\* The driver runs one issued statement: REPLACE INTO is one statement, it
\* replaces the row of the variant or fails as a whole. The first failure of an
\* operation rejects its Promise.all: `catch (e) { res.status(500) }`.
RunStatement(job) ==
  /\ UNCHANGED <<call, disc, coll, run, sales, inventory_changes, now, received, upstream>>
  /\ job \in writes.pending
  /\ initial_stock' = IF job.fails THEN initial_stock ELSE ReplaceInto(initial_stock, job.row)
  /\ writes' = [writes EXCEPT
                  !.pending = @ \ {job},
                  !.answers[job.op] = IF job.fails /\ @ = 0 THEN 500 ELSE @]
  /\ response' = IF job.fails /\ writes.answers[job.op] = 0
                 THEN [status |-> 500, op |-> writes.ops[job.op].kind, inserted |-> 0,
                       rows |-> <<>>]
                 ELSE response

\* Every statement of an operation has succeeded: `res.json({ success, inserted })`.
AnswerWrites(id) ==
  /\ UNCHANGED <<call, disc, coll, run, initial_stock, sales, inventory_changes, now, received,
                 upstream>>
  /\ id \in 1..Len(writes.ops)
  /\ writes.answers[id] = 0
  /\ \A job \in writes.pending : job.op # id
  /\ writes' = [writes EXCEPT !.answers[id] = 200]
  /\ response' = [status |-> 200, op |-> writes.ops[id].kind,
                  inserted |-> Len(writes.ops[id].rows), rows |-> <<>>]

\* Two operations at a time over a product with two variants whose upstream
\* quantities differ between the two reads.
MaxOps == 2
WritesCatalog ==
  << [id |-> 8, title |-> "Boots", images |-> <<>>, tags |-> <<"b">>,
      variants |-> << [id |-> 51, title |-> "40", inventory_item_id |-> 1],
                      [id |-> 52, title |-> "41", inventory_item_id |-> 2] >>] >>
WritesStocks == { [nLoc |-> 1, pat |-> <<<<3>>, <<2>>>>], [nLoc |-> 1, pat |-> <<<<1>>, <<4>>>>] }

NextWrites ==
  \/ \E up \in WritesStocks, failing \in {0, 1} :
        Len(writes.ops) < MaxOps /\ SnapshotWrites(<<"b">>, WritesCatalog, up, failing)
  \/ \E items \in { i \in ImportItems : i[1].initial_qty = <<4>> }, failing \in {0, 2} :
        Len(writes.ops) < MaxOps /\ ImportWrites(<<"b">>, <<items>>, failing)
  \/ \E job \in writes.pending : RunStatement(job)
  \/ \E id \in 1..MaxOps : AnswerWrites(id)

\* Snapshots and imports of the same variants, in any order.
ImportSeasons == { <<"b">>, <<"c">>, <<>> }
NextImport ==
  \/ \E up \in WritesStocks : Snapshot(<<"b">>, WritesCatalog, up)
  \/ \E season \in ImportSeasons, items \in {<<>>, << <<>> >>} \cup { <<i>> : i \in ImportItems } :
        Import(season, items) \/ ImportRejected(season, items)

(***************************************************************************)
(* Properties of the catalog client                                        *)
(***************************************************************************)

\* C3: a call whose upstream answers 429 exactly k times (0 <= k <= 5) and
\* then 200 succeeds after exactly k backoff delays and k + 1 requests, and
\* never stops before.
RetryThenSuccess ==
  (~call.forever /\ call.n429 <= RetryMax /\ call.final = 200) =>
     /\ call.pc = "done" =>
          /\ call.outcome = "ok"
          /\ Len(call.delays) = call.n429
          /\ call.requests = call.n429 + 1
     /\ call.pc \in {"request", "sleep"} => ENABLED NextRetry

\* Three 429s, then 200: three delays and four requests before the success.
RetryThenSuccessWitness ==
  /\ call.pc = "done" /\ call.client = "server"
  /\ call.n429 = 3 /\ call.final = 200 /\ ~call.forever
  /\ call.outcome = "ok" /\ Len(call.delays) = 3 /\ call.requests = 4

\* C4: a call whose upstream keeps answering 429 retries at most 5 times and
\* then fails: the 6th consecutive 429 is raised to the caller.
RetryIsBounded ==
  call.forever =>
     /\ call.requests <= RetryMax + 1
     /\ Len(call.delays) <= RetryMax
     /\ call.requests = RetryMax + 1 => call.pc = "done" /\ call.outcome = "error"

\* C21: a call that receives an error status other than 429 stops there:
\* the request that received it is the last one, no delay follows it and the
\* error is raised; when it is the answer to the first request, one request
\* was made and no delay taken.
OtherErrorFailsAtOnce ==
  (~call.forever /\ call.final # 200 /\ (call.client = "legacy" \/ call.n429 <= RetryMax)) =>
     /\ call.status \notin {0, 200, 429} =>
          /\ call.pc = "done" /\ call.outcome = "error"
          /\ call.status = call.final
          /\ call.requests = call.n429 + 1
          /\ Len(call.delays) = call.n429
     /\ call.pc = "done" => call.status = call.final
     /\ (call.pc = "request" /\ call.served429 = call.n429) => ENABLED ShopifyGetThrow

\* The first answer is a 500: one request, no delay, the error raised.
OtherErrorWitness ==
  /\ call.pc = "done" /\ call.client = "paged"
  /\ ~call.forever /\ call.n429 = 0 /\ call.final = 500
  /\ call.status = 500 /\ call.outcome = "error"
  /\ call.requests = 1 /\ call.delays = <<>>

\* The sleep the code takes for a retry-after header: the header's seconds, or
\* 2 when the header is absent, plus the generation's jitter; the legacy
\* generation sleeps 2000 ms whatever the header.
ExpectedDelay(client, h) ==
  LET sec == IF h = <<>> THEN 2 ELSE h[1]
  IN  CASE client = "paged" -> sec * 1000 + 300
        [] client = "server" -> sec * 1000 + 200
        [] client = "legacy" -> 2000

\* C27 as the spec states it: before each retry the client sleeps
\* max(retry-after, 2) seconds plus 300 ms, never less than 2300 ms.
RetryDelayIsAtLeastDefault ==
  call.client = "paged" =>
    \A k \in 1..Len(call.delays) :
      /\ call.delays[k] >= 2300
      /\ \E h \in RetryAfterHeaders :
           call.delays[k] = (IF RetryAfterSec(h) > 2 THEN RetryAfterSec(h) ELSE 2) * 1000 + 300

\* C27: before each 429 retry the client sleeps the retry-after header's seconds
\* (2 when the header is absent) times 1000 plus 300 ms (200 ms in
\* src/server.js; the legacy generation sleeps 2000 ms flat): there is no lower
\* bound of 2 s, and a header of 0 gives a sleep of 300 ms.
RetryDelayFollowsHeader ==
  /\ \A k \in 1..Len(call.delays) :
       \E h \in RetryAfterHeaders : call.delays[k] = ExpectedDelay(call.client, h)
  /\ (call.pc = "request" /\ call.requests < MaxRequests /\ UpstreamStatus(call) = 429
        /\ (call.client = "legacy" \/ call.retry < RetryMax)) =>
       \A h \in RetryAfterHeaders :
          ENABLED (ShopifyGetRateLimited
                     /\ call'.delays = Append(call.delays, ExpectedDelay(call.client, h)))

\* A paged call has slept 300 ms, 1300 ms and 2300 ms for the headers 0 and 1 and
\* for an absent header, and has then succeeded.
RetryDelayWitness ==
  /\ call.client = "paged" /\ call.pc = "done" /\ call.outcome = "ok"
  /\ call.delays = <<300, 1300, 2300>>

(***************************************************************************)
(* Properties of the tag filter                                            *)
(***************************************************************************)

Range(seq) == {seq[i] : i \in 1..Len(seq)}

\* The pieces of s between separators, as a set.
Segments(s, seps) ==
  {SubSeq(s, i, j) : <<i, j>> \in
     {x \in (1..Len(s) + 1) \X (0..Len(s)) :
        /\ x[1] <= x[2] + 1
        /\ x[1] = 1 \/ s[x[1] - 1] \in seps
        /\ x[2] = Len(s) \/ s[x[2] + 1] \in seps
        /\ \A m \in x[1]..x[2] : s[m] \notin seps}}

\* The tags of a tag string, trimmed and lower-cased.
NormTagSet(s, seps) == {ToLowerCase(Trim(t)) : t \in Segments(s, seps)}

\* The required tags a season key encodes: its comma- or semicolon-separated
\* tags, trimmed and lower-cased.
RequiredTags(key) == NormTagSet(key, {",", ";"}) \ {<<>>}

DiscoveryExaminesEveryProduct ==
  /\ disc.examined = [i \in 1..Len(disc.examined) |-> i]
  /\ Len(disc.examined) <= Min(disc.n, disc.pages * PageLimit)
  /\ disc.pages <= (disc.n \div PageLimit) + 1
  /\ disc.pc = "done" => Len(disc.examined) = disc.n

(***************************************************************************)
(* Properties of the inventory collector                                   *)
(***************************************************************************)

\* The sum of F(i) for i in lo..hi.
RECURSIVE SumTo(_, _, _)
SumTo(F(_), lo, hi) ==
  IF lo > hi THEN 0
  ELSE IF lo = hi THEN F(lo)
  ELSE SumTo(F, lo, (lo + hi) \div 2) + SumTo(F, ((lo + hi) \div 2) + 1, hi)

\* The sum of `available` (null counting 0) over the entries of one response
\* that are about the id.
ReturnedIn(levels, id) ==
  LET Part(e) == IF levels[e].inventory_item_id = id
                 THEN AvailableOrZero(levels[e].available) ELSE 0
  IN  SumTo(Part, 1, Len(levels))

\* ... and over all the responses received so far.
ReturnedFor(id) ==
  LET Part(r) == ReturnedIn(coll.responses[r], id)
  IN  SumTo(Part, 1, Len(coll.responses))

\* C8: the quantity collected for a stock item id is the sum of `available`
\* over all the location-level entries the upstream has returned for that id,
\* in all the batches read so far; an id no response mentions has no entry.
CollectedIsSumOfReturned ==
  coll.pc \in {"batch", "done"} =>
    /\ \A id \in DOMAIN coll.inventoryMap : coll.inventoryMap[id] = ReturnedFor(id)
    /\ \A id \in Range(coll.items) \ DOMAIN coll.inventoryMap : ReturnedFor(id) = 0

\* Two batches of the handler's size, items stocked at several locations: the
\* item of the second batch holds the total of its locations.
CollectedWitness ==
  /\ coll.pc = "done" /\ coll.size = ChunkSize
  /\ Len(coll.responses) = 2
  /\ coll.up.nLoc > 1
  /\ coll.up.pat = <<<<1>>>>
  /\ coll.inventoryMap[ChunkSize + 1] = coll.up.nLoc

\* The totals a whole collection with batch size `size` yields for the ids of
\* its batch c.
BatchTotals(items, up, size, c) ==
  AccumulateAll(<<>>, InventoryLevels(up, chunkArray(InventoryItemIds(items), size)[c]))

\* C9: for a fixed upstream and fixed ids, the id -> total mapping is the same
\* for every batch size.
CollectIsBatchSizeInvariant ==
  coll.pc = "done" =>
    \A size \in (1..MaxSize) \cup {ChunkSize} :
      \A c \in 1..Len(chunkArray(InventoryItemIds(coll.items), size)) :
        \A id \in Range(chunkArray(InventoryItemIds(coll.items), size)[c]) :
          MapGet(coll.inventoryMap, id) = MapGet(BatchTotals(coll.items, coll.up, size, c), id)

\* C30: in one collection the batches requested hold only truthy ids of the
\* input, no id twice over all batches, at most `size` ids each (40 in the
\* handler) and exactly `size` in all but the last; when the loop is over every
\* distinct id has been requested and ceil(n / size) requests were sent for n
\* distinct ids, none for n = 0.
BatchesPartitionDistinctIds ==
  LET ids == Range(coll.items) \ {0}
      n == Cardinality(ids)
      batches == (n + coll.size - 1) \div coll.size
      Size(c) == Len(coll.requested[c])
  IN  /\ Len(coll.requested) <= batches
      /\ \A c \in 1..Len(coll.requested) :
           /\ Size(c) <= coll.size /\ Size(c) >= 1
           /\ c < batches => Size(c) = coll.size
           /\ Range(coll.requested[c]) \subseteq ids
      /\ Cardinality(UNION { Range(coll.requested[c]) : c \in 1..Len(coll.requested) })
           = SumTo(Size, 1, Len(coll.requested))
      /\ coll.pc = "done" =>
           /\ Len(coll.requested) = batches
           /\ UNION { Range(coll.requested[c]) : c \in 1..Len(coll.requested) } = ids

\* 41 distinct ids, each given twice, have been requested in a batch of 40 and
\* a batch of 1.
BatchesWitness ==
  /\ coll.pc = "done" /\ coll.size = ChunkSize
  /\ Len(coll.items) = 2 * (ChunkSize + 1)
  /\ Len(coll.requested) = 2
  /\ Len(coll.requested[1]) = ChunkSize /\ Len(coll.requested[2]) = 1

\* The number of events of a kind in the order of the loop.
EventCount(kind) == Cardinality({ k \in 1..Len(coll.events) : coll.events[k].ev = kind })

\* C31: the inventory requests of one run go one after the other: a request
\* leaves only as the first of the run, as the retry of the same batch after
\* its 429, or for the next batch after the previous batch's response and one
\* pause of 600 ms; at most one request is unanswered at any time; a pause
\* follows a response only when another batch follows, so that a finished loop
\* has paused (number of batches - 1) times and never after the last batch.
BatchReadsAreSequentialAndPaced ==
  LET E == coll.events
      batches == Len(coll.idChunks)
  IN  /\ coll.inflight \in {0, 1}
      /\ coll.inflight = EventCount("request") - EventCount("response") - EventCount("backoff")
      /\ \A k \in 1..Len(E) :
           /\ E[k].ev = "request" =>
                IF k = 1 THEN E[k].batch = 1
                ELSE \/ E[k - 1].ev = "backoff" /\ E[k - 1].batch = E[k].batch
                     \/ /\ E[k - 1].ev = "sleep" /\ E[k - 1].ms = 600
                        /\ k > 2 /\ E[k - 2].ev = "response"
                        /\ E[k - 2].batch = E[k].batch - 1
           /\ E[k].ev \in {"response", "backoff"} =>
                k > 1 /\ E[k - 1].ev = "request" /\ E[k - 1].batch = E[k].batch
           /\ E[k].ev = "sleep" =>
                k > 1 /\ E[k - 1].ev = "response" /\ E[k - 1].batch < batches
      /\ coll.pc = "done" =>
           /\ EventCount("response") = batches
           /\ EventCount("sleep") = (IF batches = 0 THEN 0 ELSE batches - 1)
           /\ coll.pauses = EventCount("sleep")
           /\ (E # <<>> => E[Len(E)].ev = "response")

\* A loop of three batches is over: it has paused twice and retried one batch
\* after a 429.
PacedWitness ==
  /\ coll.pc = "done" /\ Len(coll.idChunks) = 3
  /\ "events" \in DOMAIN coll
  /\ EventCount("sleep") = 2 /\ EventCount("backoff") = 1 /\ EventCount("request") = 4

(***************************************************************************)
(* Properties of the snapshot table                                        *)
(***************************************************************************)

Max(S) == CHOOSE x \in S : \A y \in S : y <= x

\* The snapshot runs received so far, oldest first.
SnapshotRuns == SelectSeq(received, LAMBDA q : q.op = "snapshot")

\* The variants of the shop, each with its stock item and its product's tags.
CatalogVariants ==
  UNION { { [variant_id |-> p.variants[j].id, item |-> p.variants[j].inventory_item_id,
             tags |-> p.tags] : j \in 1..Len(p.variants) } : p \in Range(ShopCatalog) }

ItemOf(variant_id) == (CHOOSE w \in CatalogVariants : w.variant_id = variant_id).item

\* The variants a run sees: those of the products that carry the run's tag.
SeenBy(r) ==
  { w.variant_id : w \in { x \in CatalogVariants :
                             ToLowerCase(Trim(r.key)) \in NormTagSet(x.tags, {","}) } }

\* The quantity a run observes for a variant: the upstream's total over the
\* locations of the variant's stock item.
ObservedQty(r, variant_id) ==
  LET Part(loc) == AvailableOrZero(LevelAt(r.up, ItemOf(variant_id), loc).available)
  IN  SumTo(Part, 1, r.up.nLoc)

\* The runs for the season that saw the variant, and those for any season.
RunsOfSeason(variant_id, season) ==
  { k \in 1..Len(SnapshotRuns) :
      Trim(SnapshotRuns[k].key) = season /\ variant_id \in SeenBy(SnapshotRuns[k]) }
RunsSeeing(variant_id) ==
  { k \in 1..Len(SnapshotRuns) : variant_id \in SeenBy(SnapshotRuns[k]) }

\* C1 as claimed: the baseline stored for (variant, season) is the quantity
\* observed by the FIRST run for that season that saw the variant; later
\* runs never change it.
FirstSnapshotWins ==
  \A k \in 1..Len(initial_stock) :
    LET r == initial_stock[k]
        runs == RunsOfSeason(r.variant_id, r.season)
    IN  /\ runs # {}
        /\ r.initial_qty =
             ObservedQty(SnapshotRuns[CHOOSE j \in runs : \A m \in runs : j <= m], r.variant_id)

\* C1 as amended: the table holds one row per variant some run has seen, and
\* that row holds the quantity observed by the LAST run that saw the variant,
\* with that run's season and time; every later run that sees the variant
\* replaces them.
LastSnapshotWins ==
  \A w \in CatalogVariants :
    LET rows == SelectSeq(initial_stock, LAMBDA r : r.variant_id = w.variant_id)
        runs == RunsSeeing(w.variant_id)
    IN  IF runs = {} THEN rows = <<>>
        ELSE /\ Len(rows) = 1
             /\ rows[1].initial_qty = ObservedQty(SnapshotRuns[Max(runs)], w.variant_id)
             /\ rows[1].season = Trim(SnapshotRuns[Max(runs)].key)
             /\ rows[1].snapshot_at = SnapshotRuns[Max(runs)].at

\* Two runs for the same season observe different quantities of variant 11:
\* the row holds the second one.
LastSnapshotWitness ==
  /\ Len(SnapshotRuns) = 2
  /\ SnapshotRuns[1].key = <<"a">> /\ SnapshotRuns[2].key = <<"a">>
  /\ ObservedQty(SnapshotRuns[1], 11) # ObservedQty(SnapshotRuns[2], 11)
  /\ \E k \in 1..Len(initial_stock) :
       /\ initial_stock[k].variant_id = 11
       /\ initial_stock[k].season = <<"a">>
       /\ initial_stock[k].initial_qty = ObservedQty(SnapshotRuns[2], 11)
       /\ initial_stock[k].snapshot_at = SnapshotRuns[2].at

\* C10: the rows are keyed by (variant, season): every (variant, season) a
\* run has snapshotted keeps a row of its own, whatever the runs for other
\* seasons did afterwards.
SeasonRowsAreIndependent ==
  \A w \in CatalogVariants : \A k \in RunsSeeing(w.variant_id) :
    \E j \in 1..Len(initial_stock) :
      /\ initial_stock[j].variant_id = w.variant_id
      /\ initial_stock[j].season = Trim(SnapshotRuns[k].key)

\* C11 as claimed: a run for a (variant, season) that already has a row
\* leaves the row's snapshot_at unchanged.
SnapshotTimeIsKept ==
  [][\A j \in 1..Len(initial_stock) : \A k \in 1..Len(initial_stock') :
        (/\ initial_stock'[k].variant_id = initial_stock[j].variant_id
         /\ initial_stock'[k].season = initial_stock[j].season)
        => initial_stock'[k].snapshot_at = initial_stock[j].snapshot_at]_vars

\* C11 as amended: a run stamps every row it writes, new or not, with its
\* own time, which is later than the time the row had; only the rows of the
\* variants the run does not see keep theirs.
SnapshotTimeIsLatest ==
  [][(received' # received /\ received'[Len(received')].op = "snapshot") =>
       \A k \in 1..Len(initial_stock') :
         IF initial_stock'[k].variant_id \in SeenBy(received'[Len(received')])
         THEN /\ initial_stock'[k].snapshot_at = received'[Len(received')].at
              /\ \A j \in 1..Len(initial_stock) :
                    initial_stock[j].variant_id = initial_stock'[k].variant_id
                    => initial_stock[j].snapshot_at < initial_stock'[k].snapshot_at
         ELSE \E j \in 1..Len(initial_stock) : initial_stock[j] = initial_stock'[k]]_vars

\* Two runs for season a that observe the same quantity of variant 11: the
\* row bears the time of the second.
SnapshotTimeWitness ==
  /\ Len(SnapshotRuns) = 2
  /\ SnapshotRuns[1].key = <<"a">> /\ SnapshotRuns[2].key = <<"a">>
  /\ SnapshotRuns[1].up = SnapshotRuns[2].up
  /\ Len(initial_stock) = 1
  /\ initial_stock[1].variant_id = 11
  /\ initial_stock[1].snapshot_at = SnapshotRuns[2].at
  /\ SnapshotRuns[1].at < SnapshotRuns[2].at

\* The product of the variant in the catalog a run read, and the variant.
ProductIn(r, variant_id) ==
  CHOOSE p \in Range(r.catalog) : \E j \in 1..Len(p.variants) : p.variants[j].id = variant_id
VariantIn(r, variant_id) ==
  CHOOSE v \in Range(ProductIn(r, variant_id).variants) : v.id = variant_id

\* C12 as claimed: the row of a variant holds the product title, the variant
\* title, the image and the stock item id observed by the latest run that saw
\* the variant.
DescriptiveFieldsFollowLatest ==
  \A k \in 1..Len(initial_stock) :
    LET r == initial_stock[k]
        last == SnapshotRuns[Max(RunsSeeing(r.variant_id))]
    IN  /\ r.product_title = ProductIn(last, r.variant_id).title
        /\ r.variant_title = VariantIn(last, r.variant_id).title
        /\ "inventory_item_id" \in DOMAIN r
        /\ r.inventory_item_id = VariantIn(last, r.variant_id).inventory_item_id

\* C12 as amended: the row of a variant holds the product title, the variant
\* title and the image (the product's first image, or null when it has none)
\* observed by the latest run that saw the variant; it has no column for the
\* stock item id, and its sku is null.
StoredFieldsFollowLatest ==
  \A k \in 1..Len(initial_stock) :
    LET r == initial_stock[k]
        last == SnapshotRuns[Max(RunsSeeing(r.variant_id))]
        images == ProductIn(last, r.variant_id).images
    IN  /\ r.product_title = ProductIn(last, r.variant_id).title
        /\ r.variant_title = VariantIn(last, r.variant_id).title
        /\ r.image = (IF images = <<>> THEN None ELSE Head(images))
        /\ r.sku = None
        /\ DOMAIN r = {"variant_id", "sku", "product_title", "variant_title", "image",
                       "initial_qty", "season", "snapshot_at"}

\* Season b is snapshotted before and after the shop was retitled: the rows
\* hold the new titles and images.
StoredFieldsWitness ==
  /\ Len(SnapshotRuns) = 2
  /\ SnapshotRuns[1].key = <<"b">> /\ SnapshotRuns[1].catalog = ShopCatalog
  /\ SnapshotRuns[2].key = <<"b">> /\ SnapshotRuns[2].catalog = ShopCatalogRenamed
  /\ Len(initial_stock) = 2
  /\ initial_stock[1].product_title = "Parka 2" /\ initial_stock[1].variant_title = "Small"
  /\ initial_stock[1].image = "parka2.jpg"
  /\ initial_stock[2].image = "scarf.jpg"

(***************************************************************************)
(* Properties of the ledgers and of the report                             *)
(***************************************************************************)

\* The inventory events received so far, oldest first.
EventsReceived == SelectSeq(received, LAMBDA q : q.op = "inventory_levels_update")

\* The delta of the k-th observation: its available quantity minus that of
\* the most recent earlier observation of the same (item, location), or 0.
DeltaAt(k) ==
  LET prior == { j \in 1..(k - 1) :
                   /\ inventory_changes[j].inventory_item_id = inventory_changes[k].inventory_item_id
                   /\ inventory_changes[j].location_id = inventory_changes[k].location_id }
  IN  IF prior = {} THEN 0
      ELSE inventory_changes[k].available - inventory_changes[Max(prior)].available

\* C5 as claimed: every recorded observation stores its delta.
ObservationsStoreDelta ==
  \A k \in 1..Len(inventory_changes) :
    /\ "delta" \in DOMAIN inventory_changes[k]
    /\ inventory_changes[k].delta = DeltaAt(k)

\* C5 as amended: the k-th recorded observation stores the item, the
\* location and the available quantity of the k-th event (0 when the event
\* has none) and the time of its receipt, and nothing else: no delta is
\* stored, and no other observation of any pair affects what is stored.
ObservationsStoreAvailable ==
  /\ Len(inventory_changes) = Len(EventsReceived)
  /\ \A k \in 1..Len(inventory_changes) :
       LET r == inventory_changes[k]
           q == EventsReceived[k]
       IN  /\ DOMAIN r = {"id", "inventory_item_id", "location_id", "available", "recorded_at"}
           /\ r.id = k
           /\ r.inventory_item_id = q.p.inventory_item_id
           /\ r.location_id = q.p.location_id
           /\ r.available = (IF q.p.available = <<>> THEN 0 ELSE q.p.available[1])
           /\ r.recorded_at = q.at

\* The readings 10, 14, 9, 9 of one pair are stored as 10, 14, 9, 9.
ObservationsWitness ==
  /\ Len(inventory_changes) = 4
  /\ \A k \in 1..4 : /\ inventory_changes[k].inventory_item_id = 1
                     /\ inventory_changes[k].location_id = 1
  /\ [k \in 1..4 |-> inventory_changes[k].available] = <<10, 14, 9, 9>>

\* C13: the sales ledger is append-only and not deduplicated: no step changes
\* or removes a record, and every delivery of an order with n line items adds
\* exactly n records, one per line item in order, whether or not the order id
\* is in the ledger already; no other step adds any.
SalesAreAppended ==
  [][/\ Len(sales') >= Len(sales)
     /\ SubSeq(sales', 1, Len(sales)) = sales
     /\ IF received' # received /\ received'[Len(received')].op = "orders_create"
        THEN LET order == received'[Len(received')].order
                 items == order.line_items[1]
             IN  /\ Len(sales') = Len(sales) + Len(items)
                 /\ \A k \in 1..Len(items) :
                      /\ sales'[Len(sales) + k].order_id = order.id
                      /\ sales'[Len(sales) + k].variant_id = items[k].variant_id
                      /\ sales'[Len(sales) + k].qty =
                           (IF items[k].quantity = <<>> THEN 0 ELSE items[k].quantity[1])
        ELSE sales' = sales]_vars

\* The order 1002, of three line items, is delivered twice: six records, the
\* last three repeating the first three.
SalesWitness ==
  /\ Len(received) = 2
  /\ received[1].op = "orders_create" /\ received[1].order.id = 1002
  /\ received[2].op = "orders_create" /\ received[2].order.id = 1002
  /\ Len(sales) = 6
  /\ \A k \in 1..3 : /\ sales[k + 3].order_id = sales[k].order_id
                     /\ sales[k + 3].variant_id = sales[k].variant_id
                     /\ sales[k + 3].qty = sales[k].qty

\* C14: the inventory-change ledger is append-only: every inventory event
\* received adds exactly one observation at the end, no other step adds any,
\* and no step changes or removes an earlier observation or anything it stores.
ChangesAreAppended ==
  [][/\ Len(inventory_changes') >= Len(inventory_changes)
     /\ SubSeq(inventory_changes', 1, Len(inventory_changes)) = inventory_changes
     /\ IF received' # received /\ received'[Len(received')].op = "inventory_levels_update"
        THEN Len(inventory_changes') = Len(inventory_changes) + 1
        ELSE inventory_changes' = inventory_changes]_vars

\* Three events for the pair (1, 1), then one for item 2: the three
\* observations stay as they were recorded.
ChangesWitness ==
  /\ Len(inventory_changes) = 4
  /\ \A k \in 1..3 : /\ inventory_changes[k].inventory_item_id = 1
                     /\ inventory_changes[k].recorded_at = k - 1
  /\ [k \in 1..3 |-> inventory_changes[k].available] = <<14, 9, 10>>
  /\ inventory_changes[4].inventory_item_id = 2

\* The state holds the answer to a report request.
IsReport == response.status = 200 /\ response.op \in {"sellthrough", "sellthrough_first"}

\* The snapshot row the k-th row of the report is about.
ReportedRow(k) == SelectSeq(initial_stock, LAMBDA r : r.season = response.season)[k]

\* The sum of the strictly positive deltas of the observations of the row's
\* stock item recorded at or after the row's snapshot, and their number.
Qualifies(i, k) ==
  /\ inventory_changes[k].inventory_item_id = ItemOf(i.variant_id)
  /\ inventory_changes[k].recorded_at >= i.snapshot_at
  /\ DeltaAt(k) > 0
ExtraReceived(i) ==
  LET Part(k) == IF Qualifies(i, k) THEN DeltaAt(k) ELSE 0
  IN  SumTo(Part, 1, Len(inventory_changes))
RestockCount(i) == Cardinality({ k \in 1..Len(inventory_changes) : Qualifies(i, k) })

\* The tenth of a percent nearest to sold / initial * 100.
NearestTenth(sold, initial) ==
  LET lo == (1000 * sold) \div initial
  IN  IF 2 * (1000 * sold - lo * initial) >= initial THEN lo + 1 ELSE lo

\* The report row gives the percentage t (in tenths), as a number.
PctIs(row, t) ==
  IF response.op = "sellthrough" THEN row.sell_through_pct = t
  ELSE row.sell_through_pct = <<t>>

\* C15: in a report for any season, the sold quantity of a row is the sum of
\* qty over all the sale records of the row's variant in the whole ledger,
\* recorded before the snapshot or after it (sale records bear no season); it
\* is 0 for a variant without sale record.
SoldIsLedgerWide ==
  IsReport =>
    \A k \in 1..Len(response.rows) :
      LET Part(j) == IF sales[j].variant_id = ReportedRow(k).variant_id THEN sales[j].qty ELSE 0
      IN  response.rows[k].sold = SumTo(Part, 1, Len(sales))

\* Variant 11 is sold once before the snapshot of season b and twice after
\* it: the report gives 3 sold for it, and 1 for variant 12.
SoldWitness ==
  /\ IsReport /\ response.season = <<"b">>
  /\ Len(received) = 3
  /\ received[1].op = "orders_create" /\ received[1].order.id = 1001
  /\ received[2].op = "snapshot"
  /\ received[3].op = "orders_create" /\ received[3].order.id = 1002
  /\ Len(response.rows) = 2
  /\ response.rows[1].sold = 3
  /\ response.rows[2].sold = 1

\* C6 as claimed: sell_through_pct = sold / initial_total * 100 rounded to
\* one decimal, initial_total being the baseline plus the restocks, and
\* exactly 0, not null, when initial_total = 0.
PctIsSoldOverInitialTotal ==
  IsReport =>
    \A k \in 1..Len(response.rows) :
      LET total == ReportedRow(k).initial_qty + ExtraReceived(ReportedRow(k))
      IN  IF total > 0 THEN PctIs(response.rows[k], NearestTenth(response.rows[k].sold, total))
          ELSE PctIs(response.rows[k], 0)

\* C6 as amended: sell_through_pct = sold / baseline * 100 rounded to one
\* decimal, the baseline being the stored initial_qty whatever was restocked,
\* when the baseline is above 0; when it is 0 the percentage is exactly 0 in
\* the handler of src/server.js 707-742 and null in the first generation's.
PctIsSoldOverBaseline ==
  IsReport =>
    \A k \in 1..Len(response.rows) :
      LET baseline == ReportedRow(k).initial_qty
          row == response.rows[k]
      IN  /\ row.sold = Sold(ReportedRow(k).variant_id)
          /\ IF baseline > 0 THEN PctIs(row, NearestTenth(row.sold, baseline))
             ELSE IF response.op = "sellthrough" THEN row.sell_through_pct = 0
             ELSE row.sell_through_pct = <<>>

\* A report after a restock of item 1: baseline 3 and 2 sold give 66.7, and
\* baseline 7 and 1 sold give 14.3.
PctWitness ==
  /\ IsReport /\ response.op = "sellthrough"
  /\ Len(response.rows) = 2
  /\ ExtraReceived(ReportedRow(1)) > 0
  /\ response.rows[1].initial = 3 /\ response.rows[1].sold = 2
  /\ response.rows[1].sell_through_pct = 667
  /\ response.rows[2].initial = 7 /\ response.rows[2].sold = 1
  /\ response.rows[2].sell_through_pct = 143

\* C7 as claimed: the report's initial total is the baseline plus the
\* restocks received since the snapshot, and the row counts them.
InitialTotalCountsRestocks ==
  IsReport =>
    \A k \in 1..Len(response.rows) :
      /\ response.rows[k].initial = ReportedRow(k).initial_qty + ExtraReceived(ReportedRow(k))
      /\ "restock_count" \in DOMAIN response.rows[k]
      /\ response.rows[k].restock_count = RestockCount(ReportedRow(k))

\* C7 as amended: the report has one row per snapshot row of the season, in
\* table order; its initial is the row's stored baseline, to which the
\* inventory observations add nothing whatever their deltas and times, and it
\* has no restock count.
InitialIsBaseline ==
  IsReport =>
    /\ Len(response.rows) = Len(SelectSeq(initial_stock, LAMBDA r : r.season = response.season))
    /\ \A k \in 1..Len(response.rows) :
         /\ response.rows[k].initial = ReportedRow(k).initial_qty
         /\ "restock_count" \notin DOMAIN response.rows[k]

\* Item 1 is observed at 1 and then at 5 after the snapshot that found 3: the
\* report still gives 3.
InitialIsBaselineWitness ==
  /\ IsReport
  /\ Len(response.rows) = 2
  /\ ReportedRow(1).variant_id = 11
  /\ ExtraReceived(ReportedRow(1)) = 4
  /\ RestockCount(ReportedRow(1)) = 1
  /\ response.rows[1].initial = 3

(***************************************************************************)
(* Properties of the listing                                               *)
(***************************************************************************)

\* The snapshot rows of the season a report is about, in table order.
Reported == SelectSeq(initial_stock, LAMBDA r : r.season = response.season)

\* The sum of F over the reported rows of a product.
ProductSum(F(_), title) ==
  LET Part(k) == IF Reported[k].product_title = title THEN F(Reported[k]) ELSE 0
  IN  SumTo(Part, 1, Len(Reported))

\* The sum of qty over the sale records of the variant of a snapshot row.
SoldOfRow(i) ==
  LET Part(j) == IF sales[j].variant_id = i.variant_id THEN sales[j].qty ELSE 0
  IN  SumTo(Part, 1, Len(sales))

BaselineOfRow(i) == i.initial_qty

\* C16 as claimed: the report has a record per product, whose baseline, sold
\* and initial total are the sums over the product's variants and whose
\* percentage is computed from those sums.
ProductRecordsAreSums ==
  (IsReport /\ Reported # <<>>) =>
    /\ "products" \in DOMAIN response
    /\ \A k \in 1..Len(Reported) :
         \E n \in 1..Len(response.products) :
           LET rec == response.products[n]
               title == Reported[k].product_title
               total == ProductSum(BaselineOfRow, title)
           IN  /\ rec.product_title = title
               /\ rec.baseline_qty = total
               /\ rec.sold = ProductSum(SoldOfRow, title)
               /\ rec.initial_total = total
               /\ rec.sell_through_pct =
                    (IF total > 0 THEN NearestTenth(ProductSum(SoldOfRow, title), total) ELSE 0)

\* C16 as amended: the report has no product-level record. It is the list of
\* one record per snapshot row of the season, that is per variant, and each
\* record gives the baseline, the sold quantity and the percentage of its own
\* variant: nothing is summed or averaged over the variants of a product.
ReportIsPerVariant ==
  IsReport =>
    /\ "products" \notin DOMAIN response
    /\ Len(response.rows) = Len(Reported)
    /\ \A k \in 1..Len(Reported) :
         LET row == response.rows[k]
         IN  /\ row.initial = BaselineOfRow(Reported[k])
             /\ row.sold = SoldOfRow(Reported[k])
             /\ Reported[k].initial_qty > 0 =>
                  PctIs(row, NearestTenth(SoldOfRow(Reported[k]), Reported[k].initial_qty))

\* The two variants of Scarf, baselines 1 and 3, one sold of each: two
\* records of 100.0 and 33.3, and none of 4, 2 and 50.0.
ReportIsPerVariantWitness ==
  /\ IsReport /\ response.op = "sellthrough"
  /\ Len(response.rows) = 3
  /\ response.rows[1].product_title = "Scarf" /\ response.rows[2].product_title = "Scarf"
  /\ response.rows[1].initial = 1 /\ response.rows[1].sold = 1
  /\ response.rows[1].sell_through_pct = 1000
  /\ response.rows[2].initial = 3 /\ response.rows[2].sold = 1
  /\ response.rows[2].sell_through_pct = 333

\* The product titles of the model in ascending order, and the rank of one.
TitlesAscending == <<"Parka", "Parka 2", "Scarf">>
TitleRank(t) == CHOOSE n \in 1..Len(TitlesAscending) : TitlesAscending[n] = t

\* A product has no percentage: its baseline is zero and nothing was sold.
Unscored(rec) == rec.initial = 0 /\ rec.sold = 0

\* A ranking: at most 10 of the scored records of the listing, in the order
\* Ordered gives.
IsRanking(ranking, Ordered(_, _)) ==
  /\ Len(ranking) <= 10
  /\ \A n \in 1..Len(ranking) :
       /\ ~Unscored(ranking[n])
       /\ \E k \in 1..Len(response.rows) : response.rows[k] = ranking[n]
  /\ \A n \in 1..(Len(ranking) - 1) :
       Ordered(ranking[n].sell_through_pct, ranking[n + 1].sell_through_pct)

\* C17 as claimed: the listing is sorted ascending by product title, and the
\* report has a best ranking (descending percentage) and a worst ranking
\* (ascending percentage) of at most 10 scored products each.
ListingIsSortedAndRanked ==
  (IsReport /\ response.op = "sellthrough") =>
    /\ \A k \in 1..(Len(response.rows) - 1) :
         TitleRank(response.rows[k].product_title) <= TitleRank(response.rows[k + 1].product_title)
    /\ "best" \in DOMAIN response /\ "worst" \in DOMAIN response
    /\ IsRanking(response.best, LAMBDA x, y : x >= y)
    /\ IsRanking(response.worst, LAMBDA x, y : x <= y)

\* C17 as amended: the listing follows the order of the rows of the snapshot
\* table, whatever their titles, and the report has neither a best nor a
\* worst ranking.
ListingIsInTableOrder ==
  IsReport =>
    /\ "best" \notin DOMAIN response /\ "worst" \notin DOMAIN response
    /\ IF response.op = "sellthrough"
       THEN [k \in 1..Len(response.rows) |->
               <<response.rows[k].product_title, response.rows[k].variant_title>>]
            = [k \in 1..Len(Reported) |->
                 <<Reported[k].product_title, Reported[k].variant_title>>]
       ELSE [k \in 1..Len(response.rows) |-> response.rows[k].variant_id]
            = [k \in 1..Len(Reported) |-> Reported[k].variant_id]

\* The catalog lists Scarf before Parka, and so does the listing.
ListingWitness ==
  /\ IsReport /\ response.op = "sellthrough"
  /\ [k \in 1..Len(response.rows) |-> response.rows[k].product_title]
       = <<"Scarf", "Scarf", "Parka">>
  /\ response.rows[1].variant_title = "Red"
  /\ response.rows[3].sell_through_pct > response.rows[1].sell_through_pct

\* The k-th reported row has baseline 0 and no sale.
ZeroRow(k) == Reported[k].initial_qty = 0 /\ SoldOfRow(Reported[k]) = 0

\* C18 as claimed: a snapshot row with baseline 0 and no sale is listed with
\* the percentage 0, and is in no ranking.
ZeroBaselineScoresZero ==
  IsReport =>
    \A k \in 1..Len(Reported) :
      ZeroRow(k) =>
        /\ PctIs(response.rows[k], 0)
        /\ "best" \in DOMAIN response =>
             \A n \in 1..Len(response.best) : response.best[n] # response.rows[k]
        /\ "worst" \in DOMAIN response =>
             \A n \in 1..Len(response.worst) : response.worst[n] # response.rows[k]

\* C18 as amended: a snapshot row with baseline 0 and no sale is listed with
\* initial 0, sold 0 and the percentage 0 by the handler of src/server.js
\* 707-742, and with the percentage null by the first generation's; the
\* report has no ranking to leave it out of.
ZeroBaselineIsListed ==
  IsReport =>
    /\ "best" \notin DOMAIN response /\ "worst" \notin DOMAIN response
    /\ Len(response.rows) = Len(Reported)
    /\ \A k \in 1..Len(Reported) :
         ZeroRow(k) =>
           /\ response.rows[k].initial = 0
           /\ response.rows[k].sold = 0
           /\ response.rows[k].sell_through_pct =
                (IF response.op = "sellthrough" THEN 0 ELSE <<>>)

\* Parka has no stock at the snapshot and no sale: it is listed with 0.
ZeroBaselineWitness ==
  /\ IsReport /\ response.op = "sellthrough"
  /\ Len(response.rows) = 3
  /\ ZeroRow(3)
  /\ response.rows[3].product_title = "Parka"
  /\ response.rows[3].initial = 0 /\ response.rows[3].sold = 0
  /\ response.rows[3].sell_through_pct = 0
  /\ sales # <<>>

\* C19: the answer to a sell-through query for a season key that has no
\* snapshot row is a success with an empty report, whatever the table holds
\* for other seasons.
EmptySeasonIsEmptyReport ==
  (/\ response.op \in {"sellthrough", "sellthrough_first"}
   /\ response.season # <<>>
   /\ \A k \in 1..Len(initial_stock) : initial_stock[k].season # response.season) =>
     /\ response.status = 200
     /\ response.rows = <<>>

\* Season b has rows and sales, season a has none: the report for a is empty.
EmptySeasonWitness ==
  /\ response.op = "sellthrough" /\ response.season = <<"a">>
  /\ response.status = 200 /\ response.rows = <<>>
  /\ Len(initial_stock) = 2
  /\ \A k \in 1..2 : initial_stock[k].season = <<"b">>
  /\ sales # <<>>

(***************************************************************************)
(* Properties of the rejections                                            *)
(***************************************************************************)

\* The orders without line-item list.
OrdersWithoutItems == { o \in Orders : o.line_items = <<>> }

\* C20: a snapshot or sell-through request without season key and an order
\* without line-item list are never processed; they are answered with the
\* client error 400, and that answer sends nothing upstream and changes
\* neither the snapshot table nor a ledger.
InvalidInputIsRejected ==
  [][/\ ~(\E catalog \in Catalogs, up \in Stocks \cup ReportStocks : Snapshot(<<>>, catalog, up))
     /\ ~(SellThrough(<<>>) \/ SellThroughFirst(<<>>))
     /\ ~(\E order \in OrdersWithoutItems : OrdersCreate(order))
     /\ (\/ SnapshotRejected(<<>>)
         \/ SellThroughRejected(<<>>)
         \/ \E order \in OrdersWithoutItems : OrdersRejected(order))
        => /\ response'.status = 400
           /\ UNCHANGED <<initial_stock, sales, inventory_changes, upstream>>
     /\ response'.status = 400 => UNCHANGED <<initial_stock, sales, inventory_changes, upstream>>]_vars

\* After a snapshot and an order were processed, a snapshot request without
\* season is answered 400; the tables and the upstream count are as before.
InvalidInputWitness ==
  /\ response.status = 400 /\ response.op = "snapshot"
  /\ initial_stock # <<>> /\ sales # <<>>
  /\ Len(received) = 2
  /\ upstream = 2

(***************************************************************************)
(* Properties of a snapshot run taken step by step                         *)
(***************************************************************************)

\* C22: if an upstream call of a snapshot run fails, on the products page or on
\* any inventory batch, the request is answered 500 "snapshot failed" and the
\* snapshot table is exactly what it was before the run; no row is written
\* while the run is still reading upstream.
FailedRunLeavesTable ==
  [][/\ run.pc # "idle" => initial_stock = run.before
     /\ (run.pc \in {"products", "inventory"} /\ run.failAt = run.calls + 1 /\ run' # run) =>
          /\ response'.status = 500 /\ response'.op = "snapshot"
          /\ initial_stock' = run.before
          /\ run'.pc = "idle"
     /\ (run.pc # "idle" /\ run'.pc = "idle" /\ response'.status = 200) =>
          (run.failAt = 0 \/ run.failAt > run.calls)]_vars

\* A run that has failed on its second inventory batch, after a first run filled the table.
FailedRunWitness ==
  /\ run.pc = "idle" /\ response.status = 500 /\ response.op = "snapshot"
  /\ now = 2 /\ upstream = 6
  /\ Len(initial_stock) = ChunkSize + 1
  /\ \A k \in 1..Len(initial_stock) : initial_stock[k].snapshot_at = 0

\* The quantity the upstream holds for a stock item during run r.
UpstreamQty(r, id) ==
  LET Part(loc) == AvailableOrZero(LevelAt(r.up, id, loc).available)
  IN  SumTo(Part, 1, r.up.nLoc)

\* The table holds, for every variant of the products carrying the tag of run r,
\* one row of time `at` with the upstream's quantity, and otherwise the rows
\* the table had before the run, in their order.
RunWroteItsRows(r, table, at) ==
  LET seen == { p \in Range(r.catalog) : HasTag(p.tags, ToLowerCase(Trim(r.key))) }
      ids == UNION { { p.variants[j].id : j \in 1..Len(p.variants) } : p \in seen }
      Kept(row) == row.variant_id \notin ids
  IN  /\ \A p \in seen : \A j \in 1..Len(p.variants) :
           LET rows == { k \in 1..Len(table) : table[k].variant_id = p.variants[j].id }
           IN  /\ Cardinality(rows) = 1
               /\ \A k \in rows :
                    /\ table[k].initial_qty = UpstreamQty(r, p.variants[j].inventory_item_id)
                    /\ table[k].season = Trim(r.key)
                    /\ table[k].snapshot_at = at
                    /\ table[k].product_title = p.title
                    /\ table[k].variant_title = p.variants[j].title
      /\ SelectSeq(table, Kept) = SelectSeq(r.before, Kept)

\* C23: a sale or an inventory event served between two steps of a snapshot run
\* appends exactly its own rows to its own ledger and touches neither the run
\* nor the snapshot table, and the rows the run writes at its end are those of
\* the upstream quantities it read, whatever was appended meanwhile.
AppendsAndRunAreIndependent ==
  [][/\ (run.pc # "idle" /\ received' # received
           /\ received'[Len(received')].op = "orders_create") =>
          LET order == received'[Len(received')].order
              items == order.line_items[1]
          IN  /\ run' = run /\ initial_stock' = initial_stock
              /\ inventory_changes' = inventory_changes
              /\ Len(sales') = Len(sales) + Len(items)
              /\ SubSeq(sales', 1, Len(sales)) = sales
              /\ \A k \in 1..Len(items) :
                   /\ sales'[Len(sales) + k].order_id = order.id
                   /\ sales'[Len(sales) + k].variant_id = items[k].variant_id
                   /\ sales'[Len(sales) + k].qty =
                        (IF items[k].quantity = <<>> THEN 0 ELSE items[k].quantity[1])
     /\ (run.pc # "idle" /\ received' # received
           /\ received'[Len(received')].op = "inventory_levels_update") =>
          LET p == received'[Len(received')].p
              row == inventory_changes'[Len(inventory_changes')]
          IN  /\ run' = run /\ initial_stock' = initial_stock
              /\ sales' = sales
              /\ Len(inventory_changes') = Len(inventory_changes) + 1
              /\ SubSeq(inventory_changes', 1, Len(inventory_changes)) = inventory_changes
              /\ row.inventory_item_id = p.inventory_item_id
              /\ row.location_id = p.location_id
              /\ row.available = (IF p.available = <<>> THEN 0 ELSE p.available[1])
     /\ (run.pc = "write" /\ run'.pc = "idle") =>
          /\ RunWroteItsRows(run, initial_stock', now)
          /\ sales' = sales /\ inventory_changes' = inventory_changes]_vars

\* A run completed after a sale and an inventory event arrived during it.
AppendsDuringRunWitness ==
  /\ Len(received) = 3
  /\ received[3].op = "snapshot" /\ received[3].started = 0 /\ received[3].at = 2
  /\ Len(sales) = 1 /\ Len(inventory_changes) = 1
  /\ Len(initial_stock) = ChunkSize + 1
  /\ response.status = 200 /\ response.inserted = ChunkSize + 1

(***************************************************************************)
(* Properties of the season key                                            *)
(***************************************************************************)

\* The request a step has served, and the variants whose row the step wrote.
SnapshotStep == received' # received /\ received'[Len(received')].op = "snapshot"
ServedRequest == received'[Len(received')]
WrittenIds == { initial_stock'[k].variant_id :
                  k \in { j \in 1..Len(initial_stock') : initial_stock'[j].snapshot_at = now } }
VariantIdsOf(products) ==
  UNION { { p.variants[j].id : j \in 1..Len(p.variants) } : p \in products }

\* The products the handler retains: those carrying the whole trimmed key as one tag.
RetainedBy(q) ==
  { p \in Range(q.catalog) : ToLowerCase(Trim(q.key)) \in NormTagSet(p.tags, {","}) }

\* C24 as the spec states it: every comma- or semicolon-separated tag of the
\* season key is required, and the products carrying all of them are retained.
SeasonKeyIsTagList ==
  [][(SnapshotStep /\ RequiredTags(ServedRequest.key) # {}) =>
       WrittenIds = VariantIdsOf({ p \in Range(ServedRequest.catalog) :
                                     RequiredTags(ServedRequest.key) \subseteq
                                       NormTagSet(p.tags, {","}) })]_vars

\* C24: the trimmed season key is one tag, separators included; a snapshot writes
\* rows for exactly the products whose comma-separated tag list holds that tag,
\* compared case-insensitively, so a key with a comma retains nothing.
SeasonKeyIsOneTag ==
  [][SnapshotStep =>
       /\ WrittenIds = VariantIdsOf(RetainedBy(ServedRequest))
       /\ \A k \in 1..Len(initial_stock') :
            initial_stock'[k].snapshot_at = now =>
              initial_stock'[k].season = Trim(ServedRequest.key)]_vars

\* A snapshot under "A, b" has retained nothing, though Parka carries a and b.
SeasonKeyWitness ==
  /\ received # <<>>
  /\ received[Len(received)].op = "snapshot"
  /\ received[Len(received)].key = <<"A", ",", " ", "b">>
  /\ response.status = 200 /\ response.inserted = 0
  /\ \E k \in 1..Len(initial_stock) :
       initial_stock[k].variant_id = 33 /\ initial_stock[k].season = <<"a", ";", "b">>

\* C26: after a successful snapshot for a season, every variant of every product
\* the tag filter retained has a row for that season written by the run, and the
\* count answered is the number of rows the run wrote.
EveryVariantHasRow ==
  [][SnapshotStep =>
       /\ response'.status = 200
       /\ \A p \in RetainedBy(ServedRequest) : \A j \in 1..Len(p.variants) :
            \E k \in 1..Len(initial_stock') :
               /\ initial_stock'[k].variant_id = p.variants[j].id
               /\ initial_stock'[k].season = Trim(ServedRequest.key)
               /\ initial_stock'[k].snapshot_at = now
       /\ response'.inserted =
            Cardinality({ k \in 1..Len(initial_stock') : initial_stock'[k].snapshot_at = now })]_vars

\* A snapshot for "b" has written the two variants of the one retained product.
EveryVariantWitness ==
  /\ received # <<>>
  /\ received[Len(received)].op = "snapshot" /\ received[Len(received)].key = <<"b">>
  /\ response.status = 200 /\ response.inserted = 2
  /\ { initial_stock[k].variant_id :
         k \in { j \in 1..Len(initial_stock) : initial_stock[j].season = <<"b">> } } = {31, 32}

\* C29 as the spec states it: a snapshot request whose season key holds no tag
\* is not an error and retains no product.
NoTagIsNotAnError ==
  [][\A key \in SeasonRequestKeys :
       (RequiredTags(key) = {} /\ (SnapshotRejected(key) \/ Snapshot(key, TagCatalog, SeasonStock))) =>
          /\ response'.status = 200 /\ response'.inserted = 0
          /\ initial_stock' = initial_stock]_vars

\* C29: a missing or empty season key is rejected with status 400 before any
\* upstream request and without a write; a key that is blank after trimming is
\* processed as the tag "": one products request is sent, the products whose
\* tag string has an empty segment are retained, and the answer is a success
\* with their count.
NoTagIsRejectedOrProcessed ==
  [][\A key \in SeasonRequestKeys :
       /\ (key = <<>> /\ (SnapshotRejected(key) \/ Snapshot(key, TagCatalog, SeasonStock))) =>
             /\ response'.status = 400
             /\ initial_stock' = initial_stock /\ upstream' = upstream
       /\ (key # <<>> /\ Trim(key) = <<>> /\ Snapshot(key, TagCatalog, SeasonStock)) =>
             /\ response'.status = 200
             /\ upstream' > upstream
             /\ WrittenIds = VariantIdsOf({ p \in Range(TagCatalog) :
                                              <<>> \in NormTagSet(p.tags, {","}) })
             /\ response'.inserted = Cardinality(WrittenIds)]_vars

\* The blank key has been processed and has retained the product whose tag
\* string ends with an empty segment.
NoTagWitness ==
  /\ received # <<>>
  /\ received[Len(received)].op = "snapshot" /\ received[Len(received)].key = <<" ">>
  /\ response.status = 200 /\ response.inserted = 1
  /\ \E k \in 1..Len(initial_stock) :
       initial_stock[k].variant_id = 35 /\ initial_stock[k].season = <<>>

(***************************************************************************)
(* Properties of the end-to-end scenario                                   *)
(***************************************************************************)

\* The report the handler would give for a season in the current state.
ReportFor(season) == ResultRows(SeasonRows(season))

\* The stock item of a variant of the scenario, and what was last known of an
\* item's quantity: its last observation, or else the baseline of its variant.
ScenarioItemOf(variant_id) ==
  LET w == CHOOSE x \in UNION { { p.variants[j] : j \in 1..Len(p.variants) } :
                                 p \in Range(ScenarioCatalog) } : x.id = variant_id
  IN  w.inventory_item_id
LastKnown(row) ==
  LET seen == { k \in 1..Len(inventory_changes) :
                  inventory_changes[k].inventory_item_id = ScenarioItemOf(row.variant_id) }
  IN  IF seen = {} THEN row.initial_qty ELSE inventory_changes[Max(seen)].available

\* C25 as the spec states it: a restock raises the initial total of the
\* restocked variant's report row by its delta.
RestockChangesInitialTotal ==
  [][(received' # received /\ received'[Len(received')].op = "inventory_levels_update") =>
       \A season \in ScenarioKeys : \A k \in 1..Len(SeasonRows(season)) :
          LET row == SeasonRows(season)[k]
              p == received'[Len(received')].p
          IN  (ScenarioItemOf(row.variant_id) = p.inventory_item_id
                 /\ p.available[1] > LastKnown(row)) =>
                ReportFor(season)'[k].initial =
                  ReportFor(season)[k].initial + (p.available[1] - LastKnown(row))]_vars

\* C25: a report for a season has exactly one record per snapshot row of that
\* season, in table order, and none for a row of another season; a sale changes
\* the sold quantity and the percentage of the sold variant's record only, and
\* an inventory observation, restock or not, changes no record at all.
ReportFollowsSalesOnly ==
  [][/\ (IsReport' /\ response'.op = "sellthrough") =>
          /\ Len(response'.rows) = Len(SeasonRows(response'.season))
          /\ \A k \in 1..Len(response'.rows) :
               /\ SeasonRows(response'.season)[k].season = response'.season
               /\ response'.rows[k].product_title = SeasonRows(response'.season)[k].product_title
               /\ response'.rows[k].variant_title = SeasonRows(response'.season)[k].variant_title
               /\ response'.rows[k].initial = SeasonRows(response'.season)[k].initial_qty
          /\ Len(response'.rows) =
               Cardinality({ j \in 1..Len(initial_stock) : initial_stock[j].season = response'.season })
     /\ (received' # received /\ received'[Len(received')].op = "orders_create") =>
          LET item == received'[Len(received')].order.line_items[1][1]
          IN  \A season \in ScenarioKeys : \A k \in 1..Len(SeasonRows(season)) :
                IF SeasonRows(season)[k].variant_id = item.variant_id
                THEN /\ ReportFor(season)'[k].sold = ReportFor(season)[k].sold + item.quantity[1]
                     /\ ReportFor(season)'[k].initial = ReportFor(season)[k].initial
                     /\ ReportFor(season)'[k].product_title = ReportFor(season)[k].product_title
                     /\ ReportFor(season)'[k].variant_title = ReportFor(season)[k].variant_title
                ELSE ReportFor(season)'[k] = ReportFor(season)[k]
     /\ (received' # received /\ received'[Len(received')].op = "inventory_levels_update") =>
          \A season \in ScenarioKeys : ReportFor(season)' = ReportFor(season)]_vars

\* The scenario: a snapshot of season b, two sales of variant 21 totalling 4, an
\* observation of 13 for the item of variant 22 whose baseline is 5, then the
\* report: three rows, 40.0 % for variant 21 and an initial of 5 for variant 22.
ScenarioWitness ==
  /\ IsReport /\ response.op = "sellthrough" /\ response.season = <<"b">>
  /\ Len(received) = 4 /\ received[1].op = "snapshot" /\ received[1].key = <<"b">>
  /\ Len(sales) = 2 /\ Len(inventory_changes) = 1
  /\ Len(response.rows) = 3
  /\ response.rows[1].initial = 10 /\ response.rows[1].sold = 4
  /\ response.rows[1].sell_through_pct = 400
  /\ response.rows[2].initial = 5 /\ response.rows[2].sold = 0
  /\ response.rows[2].sell_through_pct = 0
  /\ response.rows[3].initial = 0 /\ response.rows[3].sold = 0

(***************************************************************************)
(* Properties of the variants without stock level                          *)
(***************************************************************************)

\* C32: a variant whose stock item has no entry in the inventory answers, or
\* which has no stock item id, gets a snapshot row with quantity 0 like any
\* other variant, the other variants get the sum of their entries, and the
\* run answers success.
UntrackedVariantGetsZero ==
  [][SnapshotStep =>
       LET q == ServedRequest
           Qty(item) ==
             IF item = 0 \/ item \in q.up.untracked THEN 0
             ELSE LET Part(loc) == AvailableOrZero(LevelAt(q.up, item, loc).available)
                  IN  SumTo(Part, 1, q.up.nLoc)
       IN  /\ response'.status = 200
           /\ \A p \in RetainedBy(q) : \A j \in 1..Len(p.variants) :
                \E k \in 1..Len(initial_stock') :
                   /\ initial_stock'[k].variant_id = p.variants[j].id
                   /\ initial_stock'[k].snapshot_at = now
                   /\ initial_stock'[k].initial_qty = Qty(p.variants[j].inventory_item_id)
           /\ response'.inserted = Cardinality(VariantIdsOf(RetainedBy(q)))]_vars

\* A snapshot has given 5 to the tracked variant and 0 to the variant whose
\* item has no level and to the variant without item.
UntrackedWitness ==
  /\ received # <<>> /\ received[Len(received)].op = "snapshot"
  /\ received[Len(received)].up.untracked = {2} /\ received[Len(received)].up.nLoc = 2
  /\ response.status = 200 /\ response.inserted = 3
  /\ Len(initial_stock) = 3
  /\ \A k \in 1..3 :
       initial_stock[k].initial_qty = (IF initial_stock[k].variant_id = 41 THEN 5 ELSE 0)

(***************************************************************************)
(* Properties of the writes taken one by one                               *)
(***************************************************************************)

\* The statements of an operation that have run, and whether all have.
HasRun(id, k) == \A job \in writes.pending : ~(job.op = id /\ job.k = k)
Settled(id) == \A job \in writes.pending : job.op # id

\* C33: when one write of a snapshot or of an import fails, the operation
\* answers 500 and no write is undone: the failing statement leaves the table
\* as it is, every other statement replaces the whole row of its variant and
\* touches no other row, whether it runs before or after the failure, and no
\* other step changes the table.
FailedWriteIsNotRolledBack ==
  [][/\ \A job \in writes.pending : RunStatement(job) =>
          IF job.fails
          THEN /\ initial_stock' = initial_stock
               /\ writes'.answers[job.op] = 500
          ELSE /\ \E k \in 1..Len(initial_stock') : initial_stock'[k] = job.row
               /\ SelectSeq(initial_stock', LAMBDA r : r.variant_id # job.row.variant_id)
                    = SelectSeq(initial_stock, LAMBDA r : r.variant_id # job.row.variant_id)
               /\ Cardinality({ k \in 1..Len(initial_stock') :
                                  initial_stock'[k].variant_id = job.row.variant_id }) = 1
               /\ writes'.answers[job.op] = writes.answers[job.op]
     /\ writes'.pending = writes.pending => initial_stock' = initial_stock
     /\ \A id \in 1..Len(writes.ops) :
          /\ writes.answers[id] = 500 => writes'.answers[id] = 500
          /\ writes'.answers[id] = 200 =>
               (writes.ops[id].failing = 0 /\ \A job \in writes'.pending : job.op # id)]_vars

\* A snapshot whose first write failed and an import whose second write
\* failed have both answered 500, and the table holds the row each of them
\* did write.
FailedWriteWitness ==
  /\ Len(writes.ops) = 2 /\ writes.pending = {}
  /\ writes.ops[1].kind = "snapshot" /\ writes.ops[1].failing = 1 /\ writes.answers[1] = 500
  /\ writes.ops[2].kind = "import" /\ writes.ops[2].failing = 2 /\ writes.answers[2] = 500
  /\ Range(initial_stock) = { writes.ops[1].rows[2], writes.ops[2].rows[1] }

\* What a table stores apart from the times of its writes.
Stored(table) ==
  { [variant_id |-> r.variant_id, season |-> r.season, initial_qty |-> r.initial_qty,
     product_title |-> r.product_title, variant_title |-> r.variant_title] :
      r \in Range(table) }

\* C34: when two snapshots of the same season have both finished, the rows
\* stored are, apart from their times, those of one of them run to its end
\* followed by the other.
SameSeasonRunsAreSerial ==
  (/\ Len(writes.ops) = 2 /\ writes.pending = {}
   /\ \A id \in 1..2 : writes.ops[id].kind = "snapshot" /\ writes.answers[id] = 200
   /\ writes.ops[1].season = writes.ops[2].season) =>
     Stored(initial_stock) \in
       { Stored(ReplaceAll(ReplaceAll(writes.ops[1].before, writes.ops[1].rows),
                           writes.ops[2].rows)),
         Stored(ReplaceAll(ReplaceAll(writes.ops[1].before, writes.ops[2].rows),
                           writes.ops[1].rows)) }

(***************************************************************************)
(* Properties of the inventory webhook's input                             *)
(***************************************************************************)

IsMalformed(p) == p.inventory_item_id = 0 \/ p.location_id = 0 \/ p.available = <<>>

\* C35 as the spec states it: an inventory event lacking its stock item id, its
\* location id or its quantity is answered with a client error and appends
\* nothing to the change ledger.
MalformedEventIsRejected ==
  [][\A p \in MalformedEvents :
       (IsMalformed(p) /\ InventoryLevelsUpdate(p)) =>
          /\ response'.status = 400
          /\ inventory_changes' = inventory_changes]_vars

\* C35: the inventory webhook validates nothing: an event lacking its stock item
\* id, its location id or its quantity is answered as a success like any other
\* and appends one observation, with NULL for a missing id and 0 for a missing
\* quantity.
MalformedEventIsRecorded ==
  [][\A p \in MalformedEvents :
       InventoryLevelsUpdate(p) =>
          /\ response'.status = 200
          /\ Len(inventory_changes') = Len(inventory_changes) + 1
          /\ SubSeq(inventory_changes', 1, Len(inventory_changes)) = inventory_changes
          /\ LET row == inventory_changes'[Len(inventory_changes')]
             IN  /\ row.inventory_item_id = p.inventory_item_id
                 /\ row.location_id = p.location_id
                 /\ row.available = (IF p.available = <<>> THEN 0 ELSE p.available[1])
                 /\ row.recorded_at = now]_vars

\* An event without any of its fields has been answered as a success and has
\* appended an observation of 0.
MalformedEventWitness ==
  /\ response.status = 200 /\ response.op = "inventory_levels_update"
  /\ received # <<>> /\ received[Len(received)].p.inventory_item_id = 0
  /\ received[Len(received)].p.location_id = 0 /\ received[Len(received)].p.available = <<>>
  /\ inventory_changes # <<>>
  /\ inventory_changes[Len(inventory_changes)].inventory_item_id = 0
  /\ inventory_changes[Len(inventory_changes)].available = 0

(***************************************************************************)
(* Properties of the import                                                *)
(***************************************************************************)

ImportStep == received' # received /\ received'[Len(received')].op = "import"

\* C36 as the spec states it: an import for a variant and a season that already
\* have a row changes neither the row's baseline nor its snapshot time.
ImportKeepsBaseline ==
  [][ImportStep =>
       \A k \in 1..Len(initial_stock) :
          (/\ initial_stock[k].season = ServedRequest.season
           /\ \E j \in 1..Len(ServedRequest.items) :
                 ServedRequest.items[j].variant_id = initial_stock[k].variant_id) =>
            \E n \in 1..Len(initial_stock') :
               /\ initial_stock'[n].variant_id = initial_stock[k].variant_id
               /\ initial_stock'[n].initial_qty = initial_stock[k].initial_qty
               /\ initial_stock'[n].snapshot_at = initial_stock[k].snapshot_at]_vars

\* C36: an import replaces the row of every variant it lists, whatever the
\* season and the origin of that row: the row takes the item's quantity (0
\* when it has none), the import's season and the time of the import; the rows
\* of the other variants are left as they are.
ImportReplacesRow ==
  [][ImportStep =>
       LET q == ServedRequest
           listed == { q.items[j].variant_id : j \in 1..Len(q.items) }
           LastOf(v) == q.items[CHOOSE j \in 1..Len(q.items) :
                                  /\ q.items[j].variant_id = v
                                  /\ \A i \in (j + 1)..Len(q.items) : q.items[i].variant_id # v]
       IN  /\ response'.status = 200 /\ response'.inserted = Len(q.items)
           /\ \A v \in listed :
                /\ Cardinality({ n \in 1..Len(initial_stock') :
                                   initial_stock'[n].variant_id = v }) = 1
                /\ \A n \in 1..Len(initial_stock') :
                     initial_stock'[n].variant_id = v =>
                       /\ initial_stock'[n].initial_qty =
                            (IF LastOf(v).initial_qty = <<>> THEN 0 ELSE LastOf(v).initial_qty[1])
                       /\ initial_stock'[n].season = q.season
                       /\ initial_stock'[n].snapshot_at = now
           /\ SelectSeq(initial_stock', LAMBDA r : r.variant_id \notin listed)
                = SelectSeq(initial_stock, LAMBDA r : r.variant_id \notin listed)]_vars

\* A snapshot of season b found 3 for variant 51 at time 0, and an import for
\* season b at time 1 has set it to 6 and to time 1.
ImportWitness ==
  /\ Len(received) = 2 /\ received[1].op = "snapshot" /\ received[2].op = "import"
  /\ received[2].season = <<"b">>
  /\ received[1].up.pat = <<<<3>>, <<2>>>>
  /\ \E k \in 1..Len(initial_stock) :
       /\ initial_stock[k].variant_id = 51 /\ initial_stock[k].season = <<"b">>
       /\ initial_stock[k].initial_qty = 6 /\ initial_stock[k].snapshot_at = 1

(***************************************************************************)
(* Specifications                                                          *)
(***************************************************************************)

\* The empty tables after initDb and ensureSchema.
InitDb ==
  /\ initial_stock = <<>>
  /\ sales = <<>>
  /\ inventory_changes = <<>>
  /\ now = 0
  /\ response = [status |-> 0, op |-> None, inserted |-> 0, rows |-> <<>>]
  /\ received = <<>>
  /\ upstream = 0
  /\ run = RunIdle
  /\ writes = WritesIdle

InitRetry ==
  /\ InitDb
  /\ disc = DiscIdle
  /\ coll = CollIdle
  /\ \E client \in Clients, n \in 0..MaxK, forever \in BOOLEAN, final \in {200, 500} :
       /\ forever => n = 0
       /\ call = CallStart(client, n, forever, final)

SpecRetry == InitRetry /\ [][NextRetry]_vars

InitTags ==
  /\ InitDb
  /\ call = CallIdle
  /\ coll = CollIdle
  /\ \E impl \in {"paged", "server"}, key \in SeasonKeys :
       \/ \E n \in 0..MaxSmall, pattern \in [1..MaxPattern -> 1..Len(TagStrings)] :
            disc = DiscStart(impl, key, n, pattern)
       \/ \E n \in PageSizes, pattern \in PagePatterns :
            disc = DiscStart(impl, key, n, pattern)

SpecTags == InitTags /\ [][NextTags]_vars

InitCollect ==
  /\ InitDb
  /\ call = CallIdle
  /\ disc = DiscIdle
  /\ \/ \E items \in SeqsUpTo(0..MaxItemId, MaxItems), nLoc \in 1..MaxLoc,
           pat \in [1..2 -> Availables], size \in (1..MaxSize) \cup {ChunkSize} :
            coll = CollStart(items, [nLoc |-> nLoc, pat |-> pat], size)
     \/ \E n \in {ChunkSize, ChunkSize + 1, 2 * ChunkSize + 1}, nLoc \in {1, FullLoc - 1, FullLoc},
           pat \in {<<<<1>>>>, <<<<2>>, <<>>, <<1>>>>}, size \in {1, ChunkSize} :
            coll = CollStart([i \in 1..n |-> i], [nLoc |-> nLoc, pat |-> pat], size)
     \/ \E n \in {ChunkSize, ChunkSize + 1} :
            coll = CollStart([i \in 1..(2 * n) |-> ((i - 1) % n) + 1],
                             [nLoc |-> 1, pat |-> <<<<1>>>>], ChunkSize)

SpecCollect == InitCollect /\ [][NextCollect]_vars

\* The snapshot table under snapshot requests.
Init ==
  /\ call = CallIdle
  /\ disc = DiscIdle
  /\ coll = CollIdle
  /\ InitDb

Spec == Init /\ [][NextSnapshots]_vars

\* The snapshot table while the shop is retitled.
SpecCatalog == Init /\ [][NextCatalog]_vars

\* The reports of a shop with a product of several variants.
SpecListing == Init /\ [][NextListing]_vars

\* Requests with and without their required input.
SpecRequests == Init /\ [][NextRequests]_vars

\* The batch loop await by await, over lists of up to MaxItems ids at the batch
\* sizes 1..MaxSize and lists of 0, 1, 40, 41, 81 and 121 ids at batch size 40.
InitPace ==
  /\ InitDb
  /\ call = CallIdle
  /\ disc = DiscIdle
  /\ \/ \E items \in SeqsUpTo(0..MaxItemId, MaxItems), size \in 1..MaxSize :
            coll = PaceStart(items, [nLoc |-> 1, pat |-> <<<<1>>>>], size)
     \/ \E n \in {0, 1, ChunkSize, ChunkSize + 1, 2 * ChunkSize + 1, 3 * ChunkSize + 1} :
            coll = PaceStart([i \in 1..n |-> i], [nLoc |-> 1, pat |-> <<<<1>>>>], ChunkSize)
SpecPace == InitPace /\ [][NextPace]_vars

\* The writes of two operations, statement by statement.
SpecWrites == Init /\ [][NextWrites]_vars

\* The inventory webhook under complete and incomplete bodies.
SpecMalformed == Init /\ [][NextMalformed]_vars

\* Snapshots and imports of the same variants.
SpecImport == Init /\ [][NextImport]_vars

\* Snapshots of variants without stock level or without stock item.
SpecUntracked == Init /\ [][NextUntracked]_vars

\* Snapshots under season keys of several shapes.
SpecSeason == Init /\ [][NextSeason]_vars

\* The end-to-end scenario of snapshot, sales, restock and report.
SpecScenario == Init /\ [][NextScenario]_vars

\* A snapshot run step by step, with webhooks in between.
SpecRun == Init /\ [][NextRun]_vars

\* The two ledgers under the webhooks.
SpecLedgers == Init /\ [][NextLedgers]_vars

\* Snapshots, webhooks and reports together.
SpecReport == Init /\ [][NextReport]_vars

====
